---- MODULE Spec2Model ----
(***************************************************************************)
(* Risk-and-accounting core of the gaspar-finance CDP protocol             *)
(* (casper/contracts): the two vault ledgers (BranchCspr, BranchScspr)     *)
(* with their rate-sorted doubly-linked list, the Router with its safe     *)
(* mode, the OracleAdapter, and the safe-mode gates of the                 *)
(* LiquidationEngine, the StabilityPool and the RedemptionEngine.          *)
(*                                                                         *)
(* Every contract is one variable holding a record of its storage fields.  *)
(* A handler is an operator from the storage (and the call's arguments) to *)
(* a result [err, st]: err is "Ok" or the CdpError the call reverts with,  *)
(* st the storage after the call.  A reverted call leaves the storage as   *)
(* it was (the host rolls the transaction back); the variable `last`       *)
(* records the last committed call, `ncalls` the number of them.           *)
(*                                                                         *)
(* Amounts are U256 in the source, with 1e18 / 1e9 fixed-point scales.     *)
(* TLC's integers are 32 bits wide, so the scales are reduced (the name    *)
(* of each constant is the source's, the comment gives the source value);  *)
(* no claim checked here depends on U256 overflow.  Time is counted in     *)
(* ticks of the same reduced scale.                                        *)
(***************************************************************************)
EXTENDS Integers, Sequences, FiniteSets, TLC

VARIABLES now, router, branch_cspr, branch_scspr, oracle, liquidation_engine,
          stability_pool, redemption_engine, stablecoin, last, ncalls

vars == <<now, router, branch_cspr, branch_scspr, oracle, liquidation_engine,
          stability_pool, redemption_engine, stablecoin, last, ncalls>>

-----------------------------------------------------------------------------
(* Bounds of the model *)

\* number of owner addresses
NumOwners == 3
\* vault ids an owner can allocate in BranchCspr (next_vault_id stays <= MaxVaultId + 1)
MaxVaultId == 2
\* the block time stays <= MaxTime
MaxTime == 1

\* a vault's collateral stays <= MaxCollateral
MaxCollateral == 6
\* a run commits at most MaxCalls calls (the block time advances freely)
MaxCalls == 4
\* a run of opens, re-rates and closes only commits at most MaxListCalls calls
MaxListCalls == 7
\* committed calls in a run under safe mode
MaxSafeCalls == 3
\* committed calls in a run of the stability pool alone
MaxPoolCalls == 4
\* committed calls in a run of redemptions
MaxRedeemCalls == 6
\* the latest timestamp passed to accrue_interest
MaxAccrueTime == 3

Owners == 1 .. NumOwners

-----------------------------------------------------------------------------
(* Program constants (reduced scales) *)

\* 11000 in the source
MCR_BPS == 11000
\* 1 in the source (branch_cspr.rs)
MIN_DEBT_WHOLE == 1
\* 2000 in the source (branch_scspr.rs); reduced
SCSPR_MIN_DEBT_WHOLE == 2
\* 1e18 in the source; reduced
PRICE_SCALE == 1000
\* 1e9 in the source; reduced
COLLATERAL_DECIMALS == 2
\* 4000 in the source
MAX_INTEREST_RATE_BPS == 4000
\* 1e18 in the source; reduced
RATE_SCALE == 10
\* 31_536_000 in the source; reduced (one tick is half a year)
SECONDS_PER_YEAR == 2
\* 10_000 in the source
BPS_SCALE == 10000
\* u32::MAX in the source; reduced (an ICR above it saturates)
U32_MAX == 1000000
\* u64::MAX in the source: the "no index" value of vault_indices
U64_MAX == 1000001

-----------------------------------------------------------------------------
(* Inputs *)

\* collateral amounts a caller passes
CollAmounts == {0, 3}
\* debt amounts a caller passes (500 is below MIN_DEBT of BranchCspr)
DebtAmounts == {0, 500, 1000}
\* interest rates a caller passes (4001 is out of bounds)
Rates == {0, 2000, 4001}
\* collateral amounts a caller passes to BranchScspr
ScsprCollAmounts == {0, 4, 5}
\* debt amounts a caller passes to BranchScspr (1000 is below its MIN_DEBT)
ScsprDebtAmounts == {0, 1000, 2000}
\* exchange rates pushed into BranchScspr (0 is rejected)
ExchangeRates == {0, 10, 12}
\* prices pushed into a branch
Prices == {500, 1000}

-----------------------------------------------------------------------------
(* Options and results *)

\* Option::None of a vault key
NoKey == <<>>

Ok(st) == [err |-> "Ok", st |-> st]
Revert(e, st) == [err |-> e, st |-> st]

\* types.rs: SafeModeState
SafeModeState(is_active, triggered_at, reason) ==
  [is_active |-> is_active, triggered_at |-> triggered_at, reason |-> reason]

SafeModeOff == SafeModeState(FALSE, 0, "Ok")

\* types.rs: VaultData; `some` is FALSE for a key the mapping does not hold
VaultData(collateral, debt, rate, ts) ==
  [some |-> TRUE, collateral |-> collateral, debt |-> debt,
   interest_rate_bps |-> rate, last_accrual_timestamp |-> ts]

NoVault ==
  [some |-> FALSE, collateral |-> 0, debt |-> 0,
   interest_rate_bps |-> 0, last_accrual_timestamp |-> 0]

\* branch_cspr.rs: SortedVaultEntry; `some` is FALSE for a key the mapping does not hold
SortedVaultEntry(rate, prev, next) ==
  [some |-> TRUE, interest_rate_bps |-> rate, prev |-> prev, next |-> next]

NoEntry == [some |-> FALSE, interest_rate_bps |-> 0, prev |-> NoKey, next |-> NoKey]

-----------------------------------------------------------------------------
(* interest.rs *)

\* an accrual that charges the yearly rate for every second elapsed
accrue_per_second(debt, interest_rate_bps, last_accrual_timestamp, current_timestamp) == [new_debt |-> debt + (debt * interest_rate_bps * (current_timestamp - last_accrual_timestamp)) \div BPS_SCALE, interest_accrued |-> (debt * interest_rate_bps * (current_timestamp - last_accrual_timestamp)) \div BPS_SCALE]

\* an accrual without the early returns: a step of time is charged at least one unit
accrue_at_least_one(debt, interest_rate_bps, last_accrual_timestamp, current_timestamp) == [new_debt |-> debt + 1, interest_accrued |-> 1]

\* interest.rs: accrue_interest
accrue_interest(debt, interest_rate_bps, last_accrual_timestamp, current_timestamp) ==
  IF current_timestamp <= last_accrual_timestamp
    THEN [new_debt |-> debt, interest_accrued |-> 0]
  ELSE IF debt = 0 \/ interest_rate_bps = 0
    THEN [new_debt |-> debt, interest_accrued |-> 0]
  ELSE LET elapsed_seconds == current_timestamp - last_accrual_timestamp
           interest == ((debt * interest_rate_bps * elapsed_seconds) \div BPS_SCALE)
                          \div SECONDS_PER_YEAR
       IN [new_debt |-> debt + interest, interest_accrued |-> interest]

-----------------------------------------------------------------------------
(* The sorted rate list (branch_cspr.rs; branch_scspr.rs has the same code  *)
(* keyed by the owner address).  b is a branch's storage record.            *)

\* a scan that does not end: the call exhausts its execution budget
GasOut == <<0, 0, 0>>

\* a scan that passes the entries of the same rate and stops at the first higher one
RECURSIVE insert_scan_past_ties(_, _, _, _)
insert_scan_past_ties(b, interest_rate_bps, current, fuel) ==
  IF current = NoKey THEN NoKey
  ELSE IF ~b.sorted_vaults[current].some THEN NoKey
  ELSE IF interest_rate_bps < b.sorted_vaults[current].interest_rate_bps THEN current
  ELSE IF fuel = 0 THEN GasOut
  ELSE insert_scan_past_ties(b, interest_rate_bps, b.sorted_vaults[current].next, fuel - 1)

\* insert_into_sorted_list, the `while let Some(curr_key) = current` loop: the key
\* the new entry goes before, NoKey when the loop ends without one
RECURSIVE insert_scan(_, _, _, _)
insert_scan(b, interest_rate_bps, current, fuel) ==
  IF current = NoKey THEN NoKey
  ELSE IF ~b.sorted_vaults[current].some THEN NoKey
  ELSE IF interest_rate_bps <= b.sorted_vaults[current].interest_rate_bps THEN current
  ELSE IF fuel = 0 THEN GasOut
  ELSE insert_scan(b, interest_rate_bps, b.sorted_vaults[current].next, fuel - 1)

\* insert_into_sorted_list, the `Insert before current` block
insert_before(b, vault_key, interest_rate_bps, curr_key) ==
  LET curr_entry == b.sorted_vaults[curr_key]
      sv1 == [b.sorted_vaults EXCEPT
                ![vault_key] = SortedVaultEntry(interest_rate_bps, curr_entry.prev, curr_key)]
      sv2 == [sv1 EXCEPT ![curr_key] = [curr_entry EXCEPT !.prev = vault_key]]
  IN IF curr_entry.prev # NoKey
       THEN IF sv2[curr_entry.prev].some
              THEN [b EXCEPT !.sorted_vaults =
                      [sv2 EXCEPT ![curr_entry.prev] =
                         [sv2[curr_entry.prev] EXCEPT !.next = vault_key]]]
              ELSE [b EXCEPT !.sorted_vaults = sv2]
       ELSE [b EXCEPT !.sorted_vaults = sv2, !.sorted_head = vault_key]

\* insert_into_sorted_list, the `Insert at tail` block
insert_at_tail(b, vault_key, interest_rate_bps) ==
  LET tail == b.sorted_tail
  IN IF tail # NoKey /\ b.sorted_vaults[tail].some
       THEN LET tail_entry == b.sorted_vaults[tail]
                sv1 == [b.sorted_vaults EXCEPT
                          ![vault_key] = SortedVaultEntry(interest_rate_bps, tail, NoKey)]
                sv2 == [sv1 EXCEPT ![tail] = [tail_entry EXCEPT !.next = vault_key]]
            IN [b EXCEPT !.sorted_vaults = sv2, !.sorted_tail = vault_key]
       ELSE b

\* an insert that puts every entry at the head, whatever its rate
insert_at_head(b, vault_key, interest_rate_bps) ==
  IF b.sorted_head = NoKey
    THEN Ok([b EXCEPT !.sorted_vaults[vault_key] =
                        SortedVaultEntry(interest_rate_bps, NoKey, NoKey),
                      !.sorted_head = vault_key,
                      !.sorted_tail = vault_key])
  ELSE Ok(insert_before(b, vault_key, interest_rate_bps, b.sorted_head))

\* BranchCspr::insert_into_sorted_list
insert_into_sorted_list(b, vault_key, interest_rate_bps) ==
  IF b.sorted_head = NoKey
    THEN Ok([b EXCEPT !.sorted_vaults[vault_key] =
                        SortedVaultEntry(interest_rate_bps, NoKey, NoKey),
                      !.sorted_head = vault_key,
                      !.sorted_tail = vault_key])
  ELSE LET at == insert_scan(b, interest_rate_bps, b.sorted_head,
                             Cardinality(DOMAIN b.sorted_vaults))
       IN IF at = GasOut THEN Revert("OutOfGas", b)
          ELSE IF at # NoKey THEN Ok(insert_before(b, vault_key, interest_rate_bps, at))
          ELSE Ok(insert_at_tail(b, vault_key, interest_rate_bps))

\* BranchCspr::remove_from_sorted_list
remove_from_sorted_list(b, vault_key) ==
  LET entry == b.sorted_vaults[vault_key]
  IN IF ~entry.some THEN b
     ELSE
       LET b1 == IF entry.prev # NoKey
                   THEN IF b.sorted_vaults[entry.prev].some
                          THEN [b EXCEPT !.sorted_vaults[entry.prev].next = entry.next]
                          ELSE b
                   ELSE [b EXCEPT !.sorted_head = entry.next]
           b2 == IF entry.next # NoKey
                   THEN IF b1.sorted_vaults[entry.next].some
                          THEN [b1 EXCEPT !.sorted_vaults[entry.next].prev = entry.prev]
                          ELSE b1
                   ELSE [b1 EXCEPT !.sorted_tail = entry.prev]
       IN [b2 EXCEPT !.sorted_vaults[vault_key] = SortedVaultEntry(0, NoKey, NoKey)]

\* BranchCspr::get_sorted_vault_owners: up to max_count keys from the head
RECURSIVE get_sorted_from(_, _, _)
get_sorted_from(b, current, max_count) ==
  IF current = NoKey \/ max_count = 0 THEN <<>>
  ELSE IF b.sorted_vaults[current].some
    THEN <<current>> \o get_sorted_from(b, b.sorted_vaults[current].next, max_count - 1)
  ELSE <<current>>

get_sorted_vault_owners(b, max_count) == get_sorted_from(b, b.sorted_head, max_count)

-----------------------------------------------------------------------------
(* BranchCspr (branch_cspr.rs).  b is the contract's storage, t the block   *)
(* time of the call.  The caller of open_vault, adjust_vault,               *)
(* adjust_interest_rate and close_vault is the router (require_router).     *)

CsprKeys == {<<o, id>> : o \in Owners, id \in 1 .. MaxVaultId}

\* MIN_DEBT_WHOLE * PRICE_SCALE
MinDebtCspr == MIN_DEBT_WHOLE * PRICE_SCALE

\* BranchCspr::init
BranchCsprInit ==
  [vaults |-> [k \in CsprKeys |-> NoVault],
   sorted_vaults |-> [k \in CsprKeys |-> NoEntry],
   sorted_head |-> NoKey,
   sorted_tail |-> NoKey,
   total_collateral |-> 0,
   total_debt |-> 0,
   vault_count |-> 0,
   last_good_price |-> PRICE_SCALE,
   next_vault_id |-> [o \in Owners |-> 1],
   user_vault_count |-> [o \in Owners |-> 0],
   user_vault_ids |-> [o \in Owners |-> [i \in 0 .. MaxVaultId - 1 |-> 0]],
   vault_indices |-> [k \in CsprKeys |-> U64_MAX]]

\* BranchCspr::get_collateral_value
get_collateral_value(b, collateral) ==
  (collateral * b.last_good_price) \div COLLATERAL_DECIMALS

\* BranchCspr::calculate_icr
calculate_icr(collateral_value, debt) ==
  IF debt = 0 THEN U32_MAX
  ELSE LET scaled == (collateral_value * 10000) \div debt
       IN IF scaled > U32_MAX THEN U32_MAX ELSE scaled

\* check_mcr that compares against 100% instead of MCR_BPS
check_mcr_at_par(collateral_value, debt) ==
  ~(calculate_icr(collateral_value, debt) < BPS_SCALE)

\* BranchCspr::check_mcr: TRUE when the call goes on, FALSE when it reverts with BelowMcr
check_mcr(collateral_value, debt) ==
  ~(calculate_icr(collateral_value, debt) < MCR_BPS)

\* the `vault.collateral.is_zero() && vault.debt.is_zero()` test of every handler
is_empty(vault) == vault.collateral = 0 /\ vault.debt = 0

\* BranchCspr::remove_vault_from_owner_list
remove_vault_from_owner_list(b, vault_key) ==
  LET owner == vault_key[1]
      count == b.user_vault_count[owner]
      index == b.vault_indices[vault_key]
  IN IF count = 0 THEN b
     ELSE IF index = U64_MAX \/ index >= count THEN b
     ELSE
       LET last_index == count - 1
           last_id == b.user_vault_ids[owner][last_index]
           b1 == IF index # last_index
                   THEN [b EXCEPT !.user_vault_ids[owner][index] = last_id,
                                  !.vault_indices[<<owner, last_id>>] = index]
                   ELSE b
       IN [b1 EXCEPT !.user_vault_ids[owner][last_index] = 0,
                     !.vault_indices[vault_key] = U64_MAX,
                     !.user_vault_count[owner] = last_index]

\* BranchCspr::open_vault
open_vault(b, owner, collateral_amount, debt_amount, interest_rate_bps, t) ==
  IF interest_rate_bps > MAX_INTEREST_RATE_BPS THEN Revert("InterestRateOutOfBounds", b)
  ELSE IF debt_amount < MinDebtCspr THEN Revert("BelowMinDebt", b)
  ELSE IF ~check_mcr(get_collateral_value(b, collateral_amount), debt_amount)
    THEN Revert("BelowMcr", b)
  ELSE
    LET next_id == b.next_vault_id[owner]
        vault_key == <<owner, next_id>>
        b1 == [b EXCEPT !.next_vault_id[owner] = next_id + 1,
                        !.vaults[vault_key] =
                           VaultData(collateral_amount, debt_amount, interest_rate_bps, t)]
        ins == insert_into_sorted_list(b1, vault_key, interest_rate_bps)
        user_count == b.user_vault_count[owner]
    IN IF ins.err # "Ok" THEN Revert(ins.err, b)
       ELSE Ok([ins.st EXCEPT
                  !.total_collateral = b.total_collateral + collateral_amount,
                  !.total_debt = b.total_debt + debt_amount,
                  !.vault_count = b.vault_count + 1,
                  !.user_vault_ids[owner][user_count] = next_id,
                  !.vault_indices[vault_key] = user_count,
                  !.user_vault_count[owner] = user_count + 1])

\* BranchCspr::close_vault_internal
close_vault_internal(b, vault_key, vault) ==
  IF b.total_collateral < vault.collateral \/ b.total_debt < vault.debt
    THEN Revert("ArithmeticOverflow", b)
  ELSE
    LET b1 == [b EXCEPT !.total_collateral = b.total_collateral - vault.collateral,
                        !.total_debt = b.total_debt - vault.debt,
                        !.vault_count = IF b.vault_count = 0 THEN 0 ELSE b.vault_count - 1]
        b2 == remove_from_sorted_list(b1, vault_key)
        b3 == [b2 EXCEPT !.vaults[vault_key] = VaultData(0, 0, 0, 0)]
    IN Ok(remove_vault_from_owner_list(b3, vault_key))

\* BranchCspr::adjust_vault
adjust_vault(b, owner, vault_id, collateral_delta, collateral_is_withdraw, debt_delta, debt_is_repay, t) ==
  LET vault_key == <<owner, vault_id>>
      stored == b.vaults[vault_key]
  IN IF ~stored.some \/ is_empty(stored) THEN Revert("VaultNotFound", b)
     ELSE
       LET accrual == accrue_interest(stored.debt, stored.interest_rate_bps,
                                      stored.last_accrual_timestamp, t)
           vault == [stored EXCEPT !.debt = accrual.new_debt,
                                   !.last_accrual_timestamp = t]
           b1 == IF accrual.interest_accrued > 0
                   THEN [b EXCEPT !.total_debt = b.total_debt + accrual.interest_accrued]
                   ELSE b
           new_collateral == IF collateral_is_withdraw
                               THEN vault.collateral - collateral_delta
                               ELSE vault.collateral + collateral_delta
           new_debt == IF debt_is_repay
                         THEN vault.debt - debt_delta
                         ELSE vault.debt + debt_delta
       IN IF collateral_is_withdraw /\ vault.collateral < collateral_delta
            THEN Revert("InsufficientCollateral", b)
          ELSE IF debt_is_repay /\ vault.debt < debt_delta
            THEN Revert("RepayExceedsDebt", b)
          ELSE IF new_collateral = 0 /\ new_debt = 0
            THEN LET r == close_vault_internal(b1, vault_key, vault)
                 IN IF r.err = "Ok" THEN r ELSE Revert(r.err, b)
          ELSE IF new_debt # 0 /\ new_debt < MinDebtCspr
            THEN Revert("BelowMinDebt", b)
          ELSE IF ~check_mcr(get_collateral_value(b1, new_collateral), new_debt)
            THEN Revert("BelowMcr", b)
          ELSE IF (collateral_is_withdraw /\ b1.total_collateral < collateral_delta)
                  \/ (debt_is_repay /\ b1.total_debt < debt_delta)
            THEN Revert("ArithmeticOverflow", b)
          ELSE Ok([b1 EXCEPT
                     !.total_collateral = IF collateral_is_withdraw
                                            THEN b1.total_collateral - collateral_delta
                                            ELSE b1.total_collateral + collateral_delta,
                     !.total_debt = IF debt_is_repay
                                      THEN b1.total_debt - debt_delta
                                      ELSE b1.total_debt + debt_delta,
                     !.vaults[vault_key] =
                        [vault EXCEPT !.collateral = new_collateral,
                                      !.debt = new_debt,
                                      !.last_accrual_timestamp = t]])

\* BranchCspr::adjust_interest_rate
adjust_interest_rate(b, owner, vault_id, interest_rate_bps, t) ==
  LET vault_key == <<owner, vault_id>>
      stored == b.vaults[vault_key]
  IN IF interest_rate_bps > MAX_INTEREST_RATE_BPS
       THEN Revert("InterestRateOutOfBounds", b)
     ELSE IF ~stored.some \/ is_empty(stored) THEN Revert("VaultNotFound", b)
     ELSE
       LET accrual == accrue_interest(stored.debt, stored.interest_rate_bps,
                                      stored.last_accrual_timestamp, t)
           vault == [stored EXCEPT !.debt = accrual.new_debt,
                                   !.last_accrual_timestamp = t]
           b1 == IF accrual.interest_accrued > 0
                   THEN [b EXCEPT !.total_debt = b.total_debt + accrual.interest_accrued]
                   ELSE b
       IN IF vault.interest_rate_bps # interest_rate_bps
            THEN LET ins == insert_into_sorted_list(remove_from_sorted_list(b1, vault_key),
                                                    vault_key, interest_rate_bps)
                 IN IF ins.err # "Ok" THEN Revert(ins.err, b)
                    ELSE Ok([ins.st EXCEPT !.vaults[vault_key] =
                               [vault EXCEPT !.interest_rate_bps = interest_rate_bps]])
            ELSE Ok([b1 EXCEPT !.vaults[vault_key] = vault])

\* BranchCspr::has_vault
has_vault(b, owner) == b.user_vault_count[owner] > 0

\* BranchCspr::get_collateral
get_collateral(b, owner, vault_id) == b.vaults[<<owner, vault_id>>].collateral

\* BranchCspr::get_debt
get_debt(b, owner, vault_id) == b.vaults[<<owner, vault_id>>].debt

\* BranchCspr::close_vault
close_vault(b, owner, vault_id) ==
  LET vault_key == <<owner, vault_id>>
      vault == b.vaults[vault_key]
  IN IF ~vault.some \/ is_empty(vault) THEN Revert("VaultNotFound", b)
     ELSE close_vault_internal(b, vault_key, vault)

\* BranchCspr::reduce_collateral_for_redemption
reduce_collateral_for_redemption(b, owner, vault_id, collateral_amount, debt_amount) ==
  LET vault_key == <<owner, vault_id>>
      stored == b.vaults[vault_key]
  IN IF ~stored.some \/ is_empty(stored) THEN Revert("VaultNotFound", b)
     ELSE IF collateral_amount > stored.collateral THEN Revert("InsufficientCollateral", b)
     ELSE IF debt_amount > stored.debt THEN Revert("RepayExceedsDebt", b)
     ELSE IF b.total_collateral < collateral_amount \/ b.total_debt < debt_amount
       THEN Revert("ArithmeticOverflow", b)
     ELSE
       LET vault == [stored EXCEPT !.collateral = stored.collateral - collateral_amount,
                                   !.debt = stored.debt - debt_amount]
           b1 == [b EXCEPT !.total_collateral = b.total_collateral - collateral_amount,
                           !.total_debt = b.total_debt - debt_amount]
           b2 == IF is_empty(vault)
                   THEN LET r == remove_from_sorted_list(b1, vault_key)
                        IN remove_vault_from_owner_list(
                             [r EXCEPT !.vault_count =
                                IF r.vault_count = 0 THEN 0 ELSE r.vault_count - 1],
                             vault_key)
                   ELSE b1
       IN Ok([b2 EXCEPT !.vaults[vault_key] = vault])

\* BranchCspr::seize_collateral
seize_collateral(b, owner, vault_id, amount) ==
  LET vault_key == <<owner, vault_id>>
      vault == b.vaults[vault_key]
  IN IF ~vault.some \/ is_empty(vault) THEN Revert("VaultNotFound", b)
     ELSE IF amount > vault.collateral THEN Revert("InsufficientCollateral", b)
     ELSE IF b.total_collateral < amount THEN Revert("ArithmeticOverflow", b)
     ELSE Ok([b EXCEPT !.vaults[vault_key].collateral = vault.collateral - amount,
                       !.total_collateral = b.total_collateral - amount])

\* reduce_debt that lowers the vault's debt and leaves total_debt as it was
reduce_debt_keeps_total(b, owner, vault_id, amount) ==
  LET vault_key == <<owner, vault_id>>
      vault == b.vaults[vault_key]
  IN IF ~vault.some \/ is_empty(vault) THEN Revert("VaultNotFound", b)
     ELSE IF amount > vault.debt THEN Revert("RepayExceedsDebt", b)
     ELSE Ok([b EXCEPT !.vaults[vault_key].debt = vault.debt - amount])

\* BranchCspr::reduce_debt
reduce_debt(b, owner, vault_id, amount) ==
  LET vault_key == <<owner, vault_id>>
      vault == b.vaults[vault_key]
  IN IF ~vault.some \/ is_empty(vault) THEN Revert("VaultNotFound", b)
     ELSE IF amount > vault.debt THEN Revert("RepayExceedsDebt", b)
     ELSE IF b.total_debt < amount THEN Revert("ArithmeticOverflow", b)
     ELSE Ok([b EXCEPT !.vaults[vault_key].debt = vault.debt - amount,
                       !.total_debt = b.total_debt - amount])

\* BranchCspr::close_vault_for_liquidation
close_vault_for_liquidation(b, owner, vault_id) ==
  LET vault_key == <<owner, vault_id>>
      vault == b.vaults[vault_key]
  IN IF ~vault.some \/ is_empty(vault) THEN Revert("VaultNotFound", b)
     ELSE IF b.total_collateral < vault.collateral \/ b.total_debt < vault.debt
       THEN Revert("ArithmeticOverflow", b)
     ELSE
       LET b1 == [b EXCEPT !.total_collateral = b.total_collateral - vault.collateral,
                           !.total_debt = b.total_debt - vault.debt,
                           !.vault_count = IF b.vault_count = 0 THEN 0 ELSE b.vault_count - 1]
           b2 == remove_from_sorted_list(b1, vault_key)
           b3 == [b2 EXCEPT !.vaults[vault_key] = VaultData(0, 0, 0, 0)]
       IN Ok(remove_vault_from_owner_list(b3, vault_key))

\* BranchCspr::update_price
update_price(b, price) == Ok([b EXCEPT !.last_good_price = price])

-----------------------------------------------------------------------------
(* BranchScspr (branch_scspr.rs): one vault per owner, keyed by the owner   *)
(* address; the caller of open_vault, adjust_vault and close_vault is the   *)
(* owner.  The list code is that of BranchCspr.                             *)

ScsprKeys == {<<o>> : o \in Owners}

\* MIN_DEBT_WHOLE * PRICE_SCALE
MinDebtScspr == SCSPR_MIN_DEBT_WHOLE * PRICE_SCALE

\* interest.rs: InterestRateConfig::default
DefaultInterestRateConfig == [min_rate_bps |-> 0, max_rate_bps |-> 4000]

\* interest.rs: validate_interest_rate
interest_validate_interest_rate(rate_bps, config) ==
  rate_bps >= config.min_rate_bps /\ rate_bps <= config.max_rate_bps

\* BranchScspr::init
BranchScsprInit ==
  [vaults |-> [k \in ScsprKeys |-> NoVault],
   sorted_vaults |-> [k \in ScsprKeys |-> NoEntry],
   sorted_head |-> NoKey,
   sorted_tail |-> NoKey,
   total_collateral |-> 0,
   total_debt |-> 0,
   vault_count |-> 0,
   safe_mode |-> SafeModeOff,
   last_good_price |-> PRICE_SCALE,
   exchange_rate |-> RATE_SCALE,
   interest_config |-> DefaultInterestRateConfig,
   total_accrued_interest |-> 0]

\* BranchScspr::insert_into_sorted_list
scspr_insert_into_sorted_list(b, owner, interest_rate_bps) ==
  insert_into_sorted_list(b, owner, interest_rate_bps)

\* BranchScspr::remove_from_sorted_list
scspr_remove_from_sorted_list(b, owner) == remove_from_sorted_list(b, owner)

\* BranchScspr::get_collateral_value (composite pricing)
scspr_get_collateral_value(b, collateral) ==
  LET cspr_equivalent == (collateral * b.exchange_rate) \div RATE_SCALE
  IN (cspr_equivalent * b.last_good_price) \div COLLATERAL_DECIMALS

\* BranchScspr::calculate_icr
scspr_calculate_icr(collateral_value, debt) ==
  IF debt = 0 THEN U32_MAX
  ELSE LET scaled == (collateral_value * 10000) \div debt
       IN IF scaled > U32_MAX THEN U32_MAX ELSE scaled

\* BranchScspr::check_mcr: TRUE when the call goes on
scspr_check_mcr(collateral_value, debt) ==
  ~(scspr_calculate_icr(collateral_value, debt) < MCR_BPS)

\* BranchScspr::has_vault
scspr_has_vault(b, owner) ==
  b.vaults[owner].some /\ (b.vaults[owner].collateral # 0 \/ b.vaults[owner].debt # 0)

\* BranchScspr::check_safe_mode_adjustment: TRUE when the call goes on
check_safe_mode_adjustment(b, collateral_delta, collateral_is_withdraw, debt_delta, debt_is_repay) ==
  IF ~b.safe_mode.is_active THEN TRUE
  ELSE LET is_borrowing == ~debt_is_repay /\ debt_delta > 0
           is_withdrawing == collateral_is_withdraw /\ collateral_delta > 0
       IN ~(is_borrowing \/ is_withdrawing)

\* BranchScspr::open_vault
scspr_open_vault(b, caller, collateral_amount, debt_amount, interest_rate_bps, t) ==
  LET owner == <<caller>>
  IN IF b.safe_mode.is_active THEN Revert("SafeModeActive", b)
     ELSE IF scspr_has_vault(b, owner) THEN Revert("VaultAlreadyExists", b)
     ELSE IF ~interest_validate_interest_rate(interest_rate_bps, b.interest_config)
       THEN Revert("InterestRateOutOfBounds", b)
     ELSE IF debt_amount < MinDebtScspr THEN Revert("BelowMinDebt", b)
     ELSE IF ~scspr_check_mcr(scspr_get_collateral_value(b, collateral_amount), debt_amount)
       THEN Revert("BelowMcr", b)
     ELSE
       LET b1 == [b EXCEPT !.vaults[owner] =
                     VaultData(collateral_amount, debt_amount, interest_rate_bps, t)]
           ins == scspr_insert_into_sorted_list(b1, owner, interest_rate_bps)
       IN IF ins.err # "Ok" THEN Revert(ins.err, b)
          ELSE Ok([ins.st EXCEPT
                     !.total_collateral = b.total_collateral + collateral_amount,
                     !.total_debt = b.total_debt + debt_amount,
                     !.vault_count = b.vault_count + 1])

\* BranchScspr::close_vault_internal
scspr_close_vault_internal(b, owner, vault) ==
  IF b.total_collateral < vault.collateral \/ b.total_debt < vault.debt
    THEN Revert("ArithmeticOverflow", b)
  ELSE
    LET b1 == [b EXCEPT !.total_collateral = b.total_collateral - vault.collateral,
                        !.total_debt = b.total_debt - vault.debt,
                        !.vault_count = IF b.vault_count = 0 THEN 0 ELSE b.vault_count - 1]
        b2 == scspr_remove_from_sorted_list(b1, owner)
    IN Ok([b2 EXCEPT !.vaults[owner] = VaultData(0, 0, 0, 0)])

\* BranchScspr::adjust_vault
scspr_adjust_vault(b, caller, collateral_delta, collateral_is_withdraw, debt_delta, debt_is_repay, t) ==
  LET owner == <<caller>>
      stored == b.vaults[owner]
  IN IF ~stored.some THEN Revert("VaultNotFound", b)
     ELSE
       LET accrual == accrue_interest(stored.debt, stored.interest_rate_bps,
                                      stored.last_accrual_timestamp, t)
           vault == [stored EXCEPT !.debt = accrual.new_debt,
                                   !.last_accrual_timestamp = t]
           b1 == IF accrual.interest_accrued > 0
                   THEN [b EXCEPT
                           !.total_accrued_interest =
                              b.total_accrued_interest + accrual.interest_accrued,
                           !.total_debt = b.total_debt + accrual.interest_accrued]
                   ELSE b
           new_collateral == IF collateral_is_withdraw
                               THEN vault.collateral - collateral_delta
                               ELSE vault.collateral + collateral_delta
           new_debt == IF debt_is_repay
                         THEN vault.debt - debt_delta
                         ELSE vault.debt + debt_delta
       IN IF ~check_safe_mode_adjustment(b, collateral_delta, collateral_is_withdraw,
                                         debt_delta, debt_is_repay)
            THEN Revert("SafeModeActive", b)
          ELSE IF collateral_is_withdraw /\ vault.collateral < collateral_delta
            THEN Revert("InsufficientCollateral", b)
          ELSE IF debt_is_repay /\ vault.debt < debt_delta
            THEN Revert("RepayExceedsDebt", b)
          ELSE IF new_collateral = 0 /\ new_debt = 0
            THEN LET r == scspr_close_vault_internal(b1, owner, vault)
                 IN IF r.err = "Ok" THEN r ELSE Revert(r.err, b)
          ELSE IF new_debt # 0 /\ new_debt < MinDebtScspr
            THEN Revert("BelowMinDebt", b)
          ELSE IF ~scspr_check_mcr(scspr_get_collateral_value(b1, new_collateral), new_debt)
            THEN Revert("BelowMcr", b)
          ELSE IF (collateral_is_withdraw /\ b1.total_collateral < collateral_delta)
                  \/ (debt_is_repay /\ b1.total_debt < debt_delta)
            THEN Revert("ArithmeticOverflow", b)
          ELSE Ok([b1 EXCEPT
                     !.total_collateral = IF collateral_is_withdraw
                                            THEN b1.total_collateral - collateral_delta
                                            ELSE b1.total_collateral + collateral_delta,
                     !.total_debt = IF debt_is_repay
                                      THEN b1.total_debt - debt_delta
                                      ELSE b1.total_debt + debt_delta,
                     !.vaults[owner] =
                        [vault EXCEPT !.collateral = new_collateral,
                                      !.debt = new_debt,
                                      !.last_accrual_timestamp = t]])

\* BranchScspr::close_vault
scspr_close_vault(b, caller) ==
  LET owner == <<caller>>
      vault == b.vaults[owner]
  IN IF b.safe_mode.is_active THEN Revert("SafeModeActive", b)
     ELSE IF ~vault.some THEN Revert("VaultNotFound", b)
     ELSE scspr_close_vault_internal(b, owner, vault)

\* BranchScspr::reduce_collateral_for_redemption
scspr_reduce_collateral_for_redemption(b, owner_addr, collateral_amount, debt_amount) ==
  LET owner == <<owner_addr>>
      stored == b.vaults[owner]
  IN IF ~stored.some THEN Revert("VaultNotFound", b)
     ELSE IF collateral_amount > stored.collateral THEN Revert("InsufficientCollateral", b)
     ELSE IF debt_amount > stored.debt THEN Revert("RepayExceedsDebt", b)
     ELSE IF b.total_collateral < collateral_amount \/ b.total_debt < debt_amount
       THEN Revert("ArithmeticOverflow", b)
     ELSE
       LET vault == [stored EXCEPT !.collateral = stored.collateral - collateral_amount,
                                   !.debt = stored.debt - debt_amount]
           b1 == [b EXCEPT !.total_collateral = b.total_collateral - collateral_amount,
                           !.total_debt = b.total_debt - debt_amount]
           b2 == IF is_empty(vault)
                   THEN LET r == scspr_remove_from_sorted_list(b1, owner)
                        IN [r EXCEPT !.vault_count =
                              IF r.vault_count = 0 THEN 0 ELSE r.vault_count - 1]
                   ELSE b1
       IN Ok([b2 EXCEPT !.vaults[owner] = vault])

\* BranchScspr::seize_collateral
scspr_seize_collateral(b, owner_addr, amount) ==
  LET owner == <<owner_addr>>
      vault == b.vaults[owner]
  IN IF ~vault.some THEN Revert("VaultNotFound", b)
     ELSE IF amount > vault.collateral THEN Revert("InsufficientCollateral", b)
     ELSE IF b.total_collateral < amount THEN Revert("ArithmeticOverflow", b)
     ELSE Ok([b EXCEPT !.vaults[owner].collateral = vault.collateral - amount,
                       !.total_collateral = b.total_collateral - amount])

\* BranchScspr::reduce_debt
scspr_reduce_debt(b, owner_addr, amount) ==
  LET owner == <<owner_addr>>
      vault == b.vaults[owner]
  IN IF ~vault.some THEN Revert("VaultNotFound", b)
     ELSE IF amount > vault.debt THEN Revert("RepayExceedsDebt", b)
     ELSE IF b.total_debt < amount THEN Revert("ArithmeticOverflow", b)
     ELSE Ok([b EXCEPT !.vaults[owner].debt = vault.debt - amount,
                       !.total_debt = b.total_debt - amount])

\* BranchScspr::close_vault_for_liquidation
scspr_close_vault_for_liquidation(b, owner_addr) ==
  LET owner == <<owner_addr>>
      vault == b.vaults[owner]
  IN IF ~vault.some THEN Revert("VaultNotFound", b)
     ELSE IF b.total_collateral < vault.collateral \/ b.total_debt < vault.debt
       THEN Revert("ArithmeticOverflow", b)
     ELSE
       LET b1 == [b EXCEPT !.total_collateral = b.total_collateral - vault.collateral,
                           !.total_debt = b.total_debt - vault.debt,
                           !.vault_count = IF b.vault_count = 0 THEN 0 ELSE b.vault_count - 1]
           b2 == scspr_remove_from_sorted_list(b1, owner)
       IN Ok([b2 EXCEPT !.vaults[owner] = VaultData(0, 0, 0, 0)])

\* BranchScspr::trigger_safe_mode
scspr_trigger_safe_mode(b, reason, t) ==
  Ok([b EXCEPT !.safe_mode = SafeModeState(TRUE, t, reason)])

\* BranchScspr::clear_safe_mode
scspr_clear_safe_mode(b) == Ok([b EXCEPT !.safe_mode = SafeModeOff])

\* BranchScspr::update_price
scspr_update_price(b, price) == Ok([b EXCEPT !.last_good_price = price])

\* BranchScspr::update_exchange_rate
scspr_update_exchange_rate(b, rate) ==
  IF rate = 0 THEN Revert("OracleRateTooLow", b)
  ELSE Ok([b EXCEPT !.exchange_rate = rate])

-----------------------------------------------------------------------------
(* CsprUsd (stablecoin.rs): the gUSD ledger.  Holders are the owners and    *)
(* the treasury; spenders are the protocol contracts a holder approves.     *)
(* The registry admin has made the router an authorized minter              *)
(* (add_minter), as the router's mint and burn calls need.                  *)

\* 0 in the source: no supply cap
DEFAULT_SUPPLY_CAP == 0

\* the treasury's address among the holders
Treasury == NumOwners + 1

Holders == Owners \cup {Treasury}

Spenders == {"router", "redemption_engine"}

\* CsprUsd::init, then add_minter(router)
StablecoinInit ==
  [total_supply |-> 0,
   balances |-> [h \in Holders |-> 0],
   allowances |-> [k \in Owners \X Spenders |-> 0],
   authorized_minters |-> {"router"},
   supply_cap |-> DEFAULT_SUPPLY_CAP]

\* CsprUsd::mint (with require_minter and mint_internal)
mint(sc, caller, to, amount) ==
  IF caller \notin sc.authorized_minters THEN Revert("UnauthorizedProtocol", sc)
  ELSE IF sc.supply_cap > 0 /\ sc.total_supply + amount > sc.supply_cap
    THEN Revert("InvalidConfig", sc)
  ELSE Ok([sc EXCEPT !.balances[to] = @ + amount,
                     !.total_supply = @ + amount])

\* CsprUsd::burn_with_allowance (with require_burner and burn_from_internal)
burn_with_allowance(sc, spender, from, amount) ==
  IF spender \notin sc.authorized_minters THEN Revert("UnauthorizedProtocol", sc)
  ELSE IF sc.allowances[<<from, spender>>] < amount
    THEN Revert("InsufficientTokenBalance", sc)
  ELSE IF sc.balances[from] < amount THEN Revert("InsufficientTokenBalance", sc)
  ELSE Ok([sc EXCEPT !.balances[from] = @ - amount,
                     !.total_supply = @ - amount,
                     !.allowances[<<from, spender>>] = @ - amount])

\* CsprUsd::approve
approve(sc, owner, spender, amount) ==
  Ok([sc EXCEPT !.allowances[<<owner, spender>>] = amount])

\* CsprUsd::transfer_from (with transfer_internal)
transfer_from(sc, spender, owner, recipient, amount) ==
  IF sc.allowances[<<owner, spender>>] < amount
    THEN Revert("InsufficientTokenBalance", sc)
  ELSE IF sc.balances[owner] < amount THEN Revert("InsufficientTokenBalance", sc)
  ELSE Ok([sc EXCEPT !.balances[owner] = @ - amount,
                     !.balances[recipient] = @ + amount,
                     !.allowances[<<owner, spender>>] = @ - amount])

-----------------------------------------------------------------------------
(* Router (router.rs).  rt is the router's storage, b the storage of        *)
(* BranchCspr, the branch whose entry points take the owner the router      *)
(* passes, sc the stablecoin's.  A handler returns the storage of the       *)
(* contracts it calls.                                                      *)

\* Router::init
RouterInit == [safe_mode |-> SafeModeOff]

\* the storage a router call works on
RouterCall(b, sc) == [branch_cspr |-> b, stablecoin |-> sc]

\* Router::validate_interest_rate: TRUE when the call goes on
validate_interest_rate(rate_bps) == ~(rate_bps > 4000)

\* a guard that lets no adjustment through while safe mode is active
require_not_safe_mode_for_adjust(rt, collateral_delta, collateral_is_withdraw, debt_delta, debt_is_repay) ==
  ~rt.safe_mode.is_active

\* Router::require_safe_mode_adjustment_allowed: TRUE when the call goes on
require_safe_mode_adjustment_allowed(rt, collateral_delta, collateral_is_withdraw, debt_delta, debt_is_repay) ==
  IF ~rt.safe_mode.is_active THEN TRUE
  ELSE LET is_borrowing == ~debt_is_repay /\ debt_delta > 0
           is_withdrawing == collateral_is_withdraw /\ collateral_delta > 0
       IN ~(is_borrowing \/ is_withdrawing)

\* Router::open_vault (with require_not_safe_mode_for_open)
router_open_vault(rt, b, sc, caller, collateral_amount, debt_amount, interest_rate_bps, t) ==
  IF rt.safe_mode.is_active THEN Revert("SafeModeActive", RouterCall(b, sc))
  ELSE IF ~validate_interest_rate(interest_rate_bps)
    THEN Revert("InterestRateOutOfBounds", RouterCall(b, sc))
  ELSE
    LET opened == open_vault(b, caller, collateral_amount, debt_amount,
                             interest_rate_bps, t)
        minted == IF debt_amount # 0 THEN mint(sc, "router", caller, debt_amount)
                  ELSE Ok(sc)
    IN IF opened.err # "Ok" THEN Revert(opened.err, RouterCall(b, sc))
       ELSE IF minted.err # "Ok" THEN Revert(minted.err, RouterCall(b, sc))
       ELSE Ok(RouterCall(opened.st, minted.st))

\* Router::adjust_vault
router_adjust_vault(rt, b, sc, caller, vault_id, collateral_delta, collateral_is_withdraw, debt_delta, debt_is_repay, t) ==
  IF ~require_safe_mode_adjustment_allowed(rt, collateral_delta, collateral_is_withdraw,
                                           debt_delta, debt_is_repay)
    THEN Revert("SafeModeActive", RouterCall(b, sc))
  ELSE
    LET adjusted == adjust_vault(b, caller, vault_id, collateral_delta,
                                 collateral_is_withdraw, debt_delta, debt_is_repay, t)
        paid == IF debt_delta = 0 THEN Ok(sc)
                ELSE IF debt_is_repay
                  THEN burn_with_allowance(sc, "router", caller, debt_delta)
                ELSE mint(sc, "router", caller, debt_delta)
    IN IF adjusted.err # "Ok" THEN Revert(adjusted.err, RouterCall(b, sc))
       ELSE IF paid.err # "Ok" THEN Revert(paid.err, RouterCall(b, sc))
       ELSE Ok(RouterCall(adjusted.st, paid.st))

\* Router::close_vault (with require_not_safe_mode_for_close)
router_close_vault(rt, b, sc, caller, vault_id) ==
  IF rt.safe_mode.is_active THEN Revert("SafeModeActive", RouterCall(b, sc))
  ELSE
    LET debt == get_debt(b, caller, vault_id)
        burned == IF debt # 0 THEN burn_with_allowance(sc, "router", caller, debt)
                  ELSE Ok(sc)
        closed == close_vault(b, caller, vault_id)
    IN IF burned.err # "Ok" THEN Revert(burned.err, RouterCall(b, sc))
       ELSE IF closed.err # "Ok" THEN Revert(closed.err, RouterCall(b, sc))
       ELSE Ok(RouterCall(closed.st, burned.st))

\* a trigger that flips the flag instead of setting it
toggle_safe_mode(rt, reason, t) ==
  Ok([rt EXCEPT !.safe_mode = SafeModeState(~rt.safe_mode.is_active, t, reason)])

\* Router::trigger_safe_mode
router_trigger_safe_mode(rt, reason, t) ==
  Ok([rt EXCEPT !.safe_mode = SafeModeState(TRUE, t, reason)])

\* Router::clear_safe_mode
router_clear_safe_mode(rt) ==
  IF ~rt.safe_mode.is_active THEN Revert("SafeModeAlreadyCleared", rt)
  ELSE Ok([rt EXCEPT !.safe_mode = SafeModeOff])

-----------------------------------------------------------------------------
(* OracleAdapter (oracle_adapter.rs).  orc is the contract's storage, t the *)
(* block time of the call.  An OracleStatus is its variant's name.          *)

\* 3600 in the source: less than one tick of the block time
DEFAULT_MAX_PRICE_AGE_SECONDS == 0
\* 500 in the source
DEFAULT_MAX_DEVIATION_BPS == 500

\* 1e18 in the source, the value of RATE_SCALE
DEFAULT_RATE == RATE_SCALE

\* OracleConfig::default
DefaultOracleConfig ==
  [max_price_age_seconds |-> DEFAULT_MAX_PRICE_AGE_SECONDS,
   max_deviation_bps |-> DEFAULT_MAX_DEVIATION_BPS,
   min_cspr_price |-> PRICE_SCALE \div 1000,
   max_cspr_price |-> 1000 * PRICE_SCALE,
   min_exchange_rate |-> RATE_SCALE \div 2,
   max_exchange_rate |-> RATE_SCALE * 3]

\* oracle_adapter.rs: CachedPrice
CachedPrice(price, timestamp, status) ==
  [price |-> price, timestamp |-> timestamp, status |-> status]

\* types.rs: PriceData
PriceData(price_int, timestamp_sec, status) ==
  [price_int |-> price_int, price_decimals |-> 18,
   timestamp_sec |-> timestamp_sec, status |-> status]

\* u64::saturating_sub
saturating_sub(a, b) == IF a > b THEN a - b ELSE 0

\* Ord::min
min(a, b) == IF a < b THEN a ELSE b

\* OracleAdapter::init at block time 0
OracleInit ==
  [config |-> DefaultOracleConfig,
   last_good_cspr_price |-> PRICE_SCALE,
   last_good_exchange_rate |-> DEFAULT_RATE,
   last_rate_update |-> 0,
   cached_cspr_price |-> CachedPrice(PRICE_SCALE, 0, "Ok"),
   cached_scspr_price |-> CachedPrice(PRICE_SCALE, 0, "Ok"),
   is_degraded |-> FALSE]

\* OracleAdapter::calculate_composite_price
calculate_composite_price(cspr_price, rate) == (cspr_price * rate) \div RATE_SCALE

\* a deviation check that lets every price pass
check_deviation_off(new_price, reference_price, max_deviation_bps) == "Ok"

\* OracleAdapter::check_deviation
check_deviation(new_price, reference_price, max_deviation_bps) ==
  IF reference_price = 0 THEN "Ok"
  ELSE LET diff == IF new_price > reference_price THEN new_price - reference_price
                   ELSE reference_price - new_price
           deviation_bps == (diff * 10000) \div reference_price
       IN IF deviation_bps > max_deviation_bps THEN "Deviation" ELSE "Ok"

\* OracleAdapter::get_cspr_price
get_cspr_price(orc, t) ==
  LET cached == orc.cached_cspr_price
      age == saturating_sub(t, cached.timestamp)
      status == IF age > orc.config.max_price_age_seconds THEN "Stale"
                ELSE cached.status
  IN PriceData(cached.price, cached.timestamp, status)

\* OracleAdapter::get_scspr_price
get_scspr_price(orc, t) ==
  LET cspr_price == get_cspr_price(orc, t)
      rate == orc.last_good_exchange_rate
      rate_timestamp == orc.last_rate_update
      rate_age == saturating_sub(t, rate_timestamp)
      rate_is_stale == rate_age > orc.config.max_price_age_seconds
      composite == calculate_composite_price(cspr_price.price_int, rate)
  IN IF cspr_price.status # "Ok"
       THEN PriceData(composite, cspr_price.timestamp_sec, cspr_price.status)
     ELSE IF rate_is_stale
       THEN PriceData(composite, min(rate_timestamp, cspr_price.timestamp_sec), "Stale")
     ELSE PriceData(composite, min(rate_timestamp, cspr_price.timestamp_sec), "Ok")

\* OracleAdapter::get_price; collateral_id is "Cspr" or "SCSPR"
oracle_get_price(orc, collateral_id, t) ==
  IF collateral_id = "Cspr" THEN get_cspr_price(orc, t) ELSE get_scspr_price(orc, t)

\* OracleAdapter::handle_price_failure: the router is not called
handle_price_failure(orc, reason) ==
  [orc EXCEPT !.is_degraded = TRUE, !.cached_cspr_price.status = reason]

\* OracleAdapter::update_cspr_price: a rejected price returns normally
update_cspr_price(orc, price, timestamp, t) ==
  LET config == orc.config
      deviation_status == check_deviation(price, orc.last_good_cspr_price,
                                          config.max_deviation_bps)
  IN IF price < config.min_cspr_price \/ price > config.max_cspr_price
       THEN Ok(handle_price_failure(orc, "Deviation"))
     ELSE IF deviation_status # "Ok"
       THEN Ok(handle_price_failure(orc, deviation_status))
     ELSE IF timestamp < saturating_sub(t, config.max_price_age_seconds)
       THEN Ok(handle_price_failure(orc, "Stale"))
     ELSE Ok([orc EXCEPT
                !.cached_cspr_price = CachedPrice(price, timestamp, "Ok"),
                !.last_good_cspr_price = price,
                !.is_degraded = FALSE,
                !.cached_scspr_price =
                   CachedPrice(calculate_composite_price(price, orc.last_good_exchange_rate),
                               min(timestamp, orc.last_rate_update), "Ok")])

\* OracleAdapter::update_exchange_rate: a rejected rate returns normally
update_exchange_rate(orc, rate, t) ==
  IF rate < orc.config.min_exchange_rate \/ rate > orc.config.max_exchange_rate
    THEN Ok(handle_price_failure(orc, "InvalidRate"))
  ELSE Ok([orc EXCEPT
             !.last_good_exchange_rate = rate,
             !.last_rate_update = t,
             !.cached_scspr_price =
                CachedPrice(calculate_composite_price(orc.last_good_cspr_price, rate),
                            t, "Ok")])

\* OracleAdapter::refresh_price (the cached price is set since init)
refresh_price(orc, t) ==
  IF saturating_sub(t, orc.cached_cspr_price.timestamp) > orc.config.max_price_age_seconds
    THEN Ok(handle_price_failure(orc, "Stale"))
  ELSE Ok(orc)

\* OracleAdapter::clear_degraded_mode
clear_degraded_mode(orc, t) ==
  Ok([orc EXCEPT
        !.is_degraded = FALSE,
        !.cached_cspr_price = CachedPrice(orc.last_good_cspr_price, t, "Ok"),
        !.cached_scspr_price =
           CachedPrice(calculate_composite_price(orc.last_good_cspr_price,
                                                 orc.last_good_exchange_rate), t, "Ok")])

-----------------------------------------------------------------------------
(* StabilityPool (stability_pool.rs).  sp is the contract's storage.  The   *)
(* epoch_scale_sum mappings are sets of <<epoch, scale, sum>>, one per key. *)

\* 1e18 in the source (liquidation_engine.rs, stability_pool.rs, redemption_engine.rs); reduced
SCALE == 1000
\* 1e9 in the source; reduced
SCALE_FACTOR == 10
\* 1e6 in the source, on the 1e18 scale; reduced to the least amount
MIN_DEPOSIT == 1

\* stability_pool.rs: ProductSumState
ProductSumState(p, s_cspr, s_scspr, epoch, scale) ==
  [p |-> p, s_cspr |-> s_cspr, s_scspr |-> s_scspr, epoch |-> epoch, scale |-> scale]

\* stability_pool.rs: DepositSnapshot
DepositSnapshot(deposit, p, s_cspr, s_scspr, epoch, scale) ==
  [deposit |-> deposit, p |-> p, s_cspr |-> s_cspr, s_scspr |-> s_scspr,
   epoch |-> epoch, scale |-> scale]

\* DepositSnapshot::default
DefaultDepositSnapshot == DepositSnapshot(0, 0, 0, 0, 0, 0)

\* StabilityPool::init
StabilityPoolInit ==
  [total_deposits |-> 0,
   total_cspr_collateral |-> 0,
   total_scspr_collateral |-> 0,
   total_debt_absorbed |-> 0,
   depositor_count |-> 0,
   ps_state |-> ProductSumState(SCALE, 0, 0, 0, 0),
   epoch_scale_sum_cspr |-> {},
   epoch_scale_sum_scspr |-> {},
   deposits |-> [o \in Owners |-> DefaultDepositSnapshot],
   safe_mode |-> SafeModeOff]

\* Mapping::get(&(epoch, scale)).unwrap_or(0)
sum_at(m, epoch, scale) ==
  IF \E x \in m : x[1] = epoch /\ x[2] = scale
    THEN (CHOOSE x \in m : x[1] = epoch /\ x[2] = scale)[3]
  ELSE 0

\* Mapping::set(&(epoch, scale), sum)
sum_set(m, epoch, scale, sum) ==
  {x \in m : ~(x[1] = epoch /\ x[2] = scale)} \cup {<<epoch, scale, sum>>}

\* StabilityPool::get_compounded_deposit
get_compounded_deposit(sp, depositor) ==
  LET snapshot == sp.deposits[depositor]
      state == sp.ps_state
      scale_diff == saturating_sub(state.scale, snapshot.scale)
  IN IF snapshot.deposit = 0 THEN 0
     ELSE IF snapshot.p = 0 THEN snapshot.deposit
     ELSE IF state.epoch > snapshot.epoch THEN 0
     ELSE IF scale_diff = 0 THEN (snapshot.deposit * state.p) \div snapshot.p
     ELSE IF scale_diff = 1
       THEN ((snapshot.deposit * state.p) \div snapshot.p) \div SCALE_FACTOR
     ELSE 0

\* StabilityPool::calculate_gains
calculate_gains(sp, deposit, snapshot_s, snapshot_p, snapshot_epoch, snapshot_scale, current_s, current_epoch, current_scale, collateral_id) ==
  IF snapshot_p = 0 THEN 0
  ELSE IF current_epoch # snapshot_epoch THEN 0
  ELSE
    LET scale_diff == saturating_sub(current_scale, snapshot_scale)
        sum_at_next ==
          IF collateral_id = "Cspr"
            THEN sum_at(sp.epoch_scale_sum_cspr, snapshot_epoch, snapshot_scale + 1)
          ELSE sum_at(sp.epoch_scale_sum_scspr, snapshot_epoch, snapshot_scale + 1)
        sum_diff ==
          IF scale_diff = 0 THEN saturating_sub(current_s, snapshot_s)
          ELSE IF scale_diff = 1
            THEN (sum_at_next \div SCALE_FACTOR) + saturating_sub(current_s, snapshot_s)
          ELSE 0
    IN (deposit * sum_diff) \div snapshot_p

\* StabilityPool::get_depositor_gains
get_depositor_gains(sp, depositor) ==
  LET snapshot == sp.deposits[depositor]
      state == sp.ps_state
  IN IF snapshot.deposit = 0 THEN [cspr_gain |-> 0, scspr_gain |-> 0]
     ELSE [cspr_gain |->
             calculate_gains(sp, snapshot.deposit, snapshot.s_cspr, snapshot.p,
                             snapshot.epoch, snapshot.scale, state.s_cspr,
                             state.epoch, state.scale, "Cspr"),
           scspr_gain |->
             calculate_gains(sp, snapshot.deposit, snapshot.s_scspr, snapshot.p,
                             snapshot.epoch, snapshot.scale, state.s_scspr,
                             state.epoch, state.scale, "SCSPR")]

\* StabilityPool::store_snapshot
store_snapshot(sp, depositor, deposit) ==
  [sp EXCEPT !.deposits[depositor] =
     DepositSnapshot(deposit, sp.ps_state.p, sp.ps_state.s_cspr, sp.ps_state.s_scspr,
                     sp.ps_state.epoch, sp.ps_state.scale)]

\* StabilityPool::deposit: no safe-mode check
deposit(sp, depositor, amount) ==
  IF amount < MIN_DEPOSIT THEN Revert("BelowMinDebt", sp)
  ELSE
    LET existing_snapshot == sp.deposits[depositor]
        new_deposit == get_compounded_deposit(sp, depositor) + amount
        sp1 == IF existing_snapshot.deposit = 0 /\ new_deposit # 0
                 THEN [sp EXCEPT !.depositor_count = @ + 1]
               ELSE sp
        sp2 == store_snapshot(sp1, depositor, new_deposit)
    IN Ok([sp2 EXCEPT !.total_deposits = @ + amount])

\* a withdrawal that lowers the total and leaves the depositor's snapshot and the count
withdraw_total_only(sp, depositor, amount) == Ok([sp EXCEPT !.total_deposits = saturating_sub(@, amount)])

\* StabilityPool::withdraw (with require_not_safe_mode)
withdraw(sp, depositor, amount) ==
  LET compounded_deposit == get_compounded_deposit(sp, depositor)
      new_deposit == compounded_deposit - amount
      existing_snapshot == sp.deposits[depositor]
      sp1 == IF existing_snapshot.deposit # 0 /\ new_deposit = 0 /\ sp.depositor_count > 0
               THEN [sp EXCEPT !.depositor_count = @ - 1]
             ELSE sp
      sp2 == IF new_deposit = 0
               THEN [sp1 EXCEPT !.deposits[depositor] = DefaultDepositSnapshot]
             ELSE store_snapshot(sp1, depositor, new_deposit)
  IN IF sp.safe_mode.is_active THEN Revert("SafeModeActive", sp)
     ELSE IF amount > compounded_deposit THEN Revert("InsufficientCollateral", sp)
     ELSE Ok([sp2 EXCEPT !.total_deposits = saturating_sub(@, amount)])

\* StabilityPool::claim_gains (with require_not_safe_mode)
claim_gains(sp, depositor) ==
  LET gains == get_depositor_gains(sp, depositor)
      compounded_deposit == get_compounded_deposit(sp, depositor)
  IN IF sp.safe_mode.is_active THEN Revert("SafeModeActive", sp)
     ELSE IF gains.cspr_gain = 0 /\ gains.scspr_gain = 0 THEN Ok(sp)
     ELSE IF compounded_deposit # 0 THEN Ok(store_snapshot(sp, depositor, compounded_deposit))
     ELSE Ok(sp)

\* an update that raises P
raise_product(sp, collateral_id, debt_offset, collateral_gain, total_deposits) == [sp EXCEPT !.ps_state.p = @ + 1]

\* an update that records neither the gain nor the loss
keep_product_sum(sp, collateral_id, debt_offset, collateral_gain, total_deposits) == sp

\* StabilityPool::update_product_sum
update_product_sum(sp, collateral_id, debt_offset, collateral_gain, total_deposits) ==
  LET state == sp.ps_state
      numerator == saturating_sub(total_deposits, debt_offset)
      sum_increment == (collateral_gain * state.p) \div total_deposits
      state1 == IF collateral_id = "Cspr"
                  THEN [state EXCEPT !.s_cspr = @ + sum_increment]
                ELSE [state EXCEPT !.s_scspr = @ + sum_increment]
      sp1 == IF collateral_id = "Cspr"
               THEN [sp EXCEPT !.epoch_scale_sum_cspr =
                       sum_set(@, state.epoch, state.scale, state1.s_cspr)]
             ELSE [sp EXCEPT !.epoch_scale_sum_scspr =
                     sum_set(@, state.epoch, state.scale, state1.s_scspr)]
      new_p == (state.p * numerator) \div total_deposits
      state2 == IF numerator = 0
                  THEN [state1 EXCEPT !.epoch = @ + 1, !.scale = 0, !.p = SCALE]
                ELSE IF new_p < SCALE \div SCALE_FACTOR
                  THEN [state1 EXCEPT !.p = new_p * SCALE_FACTOR, !.scale = @ + 1]
                ELSE [state1 EXCEPT !.p = new_p]
  IN [sp1 EXCEPT !.ps_state = state2]

\* StabilityPool::offset: `ret` is the debt the pool absorbed
offset(sp, collateral_id, debt_to_offset, collateral_to_add) ==
  LET total == sp.total_deposits
      actual_debt_offset == IF debt_to_offset > total THEN total ELSE debt_to_offset
      sp1 == update_product_sum(sp, collateral_id, actual_debt_offset,
                                collateral_to_add, total)
      sp2 == [sp1 EXCEPT !.total_deposits = total - actual_debt_offset]
      sp3 == IF collateral_id = "Cspr"
               THEN [sp2 EXCEPT !.total_cspr_collateral = @ + collateral_to_add]
             ELSE [sp2 EXCEPT !.total_scspr_collateral = @ + collateral_to_add]
  IN IF total = 0 \/ actual_debt_offset = 0 THEN [err |-> "Ok", st |-> sp, ret |-> 0]
     ELSE [err |-> "Ok",
           st |-> [sp3 EXCEPT !.total_debt_absorbed = @ + actual_debt_offset],
           ret |-> actual_debt_offset]

\* StabilityPool::trigger_safe_mode
sp_trigger_safe_mode(sp, reason, t) ==
  Ok([sp EXCEPT !.safe_mode = SafeModeState(TRUE, t, reason)])

\* StabilityPool::clear_safe_mode
sp_clear_safe_mode(sp) == Ok([sp EXCEPT !.safe_mode = SafeModeOff])

-----------------------------------------------------------------------------
(* LiquidationEngine (liquidation_engine.rs).  le is the engine's storage,  *)
(* b the branch's, orc the oracle's, sp the pool's.  The engine addresses   *)
(* a vault by its owner alone, which is the interface of BranchScspr: the   *)
(* collateral is "SCSPR".  Its calls reach OracleAdapter::get_price (the    *)
(* price_int of the answer) and StabilityPool::offset.  The custody         *)
(* transfers of collateral are outside the ledgers modelled here.           *)

\* 1000 in the source
LIQUIDATION_PENALTY_BPS == 1000

\* LiquidationEngine::init
LiquidationEngineInit ==
  [liquidation_penalty_bps |-> LIQUIDATION_PENALTY_BPS,
   gas_compensation |-> 200 * SCALE,
   total_liquidations |-> 0,
   total_debt_liquidated |-> 0,
   total_collateral_seized |-> 0,
   safe_mode |-> SafeModeOff]

\* the storage a liquidation works on
LiquidationCall(le, b, sp) ==
  [liquidation_engine |-> le, branch_scspr |-> b, stability_pool |-> sp]

\* BranchScspr::get_collateral
scspr_get_collateral(b, owner) == b.vaults[<<owner>>].collateral

\* BranchScspr::get_debt
scspr_get_debt(b, owner) == b.vaults[<<owner>>].debt

\* LiquidationEngine::get_vault_data
get_vault_data(b, owner) ==
  [collateral |-> scspr_get_collateral(b, owner), debt |-> scspr_get_debt(b, owner)]

\* LiquidationEngine::get_price
le_get_price(orc, collateral_id, t) == oracle_get_price(orc, collateral_id, t).price_int

\* LiquidationEngine::calculate_collateral_value
calculate_collateral_value(collateral, price) == (collateral * price) \div SCALE

\* LiquidationEngine::calculate_icr
le_calculate_icr(collateral_value, debt) ==
  IF debt = 0 THEN U32_MAX
  ELSE LET scaled == (collateral_value * BPS_SCALE) \div debt
       IN IF scaled > U32_MAX THEN U32_MAX ELSE scaled

\* LiquidationEngine::set_liquidation_penalty
set_liquidation_penalty(le, penalty_bps) ==
  IF penalty_bps > 5000 THEN Revert("InvalidConfig", le)
  ELSE Ok([le EXCEPT !.liquidation_penalty_bps = penalty_bps])

\* a liquidation that asks for the collateral the debt and the penalty are worth and
\* for the whole debt, whatever the vault holds
calculate_liquidation_uncapped(le, vault_owner, collateral, debt, price) ==
  LET penalty_multiplier == BPS_SCALE + le.liquidation_penalty_bps
      collateral_to_seize == (((debt * penalty_multiplier) \div BPS_SCALE) * SCALE) \div price
  IN [vault_owner |-> vault_owner,
      debt_liquidated |-> debt,
      collateral_seized |-> collateral_to_seize,
      collateral_to_sp |-> collateral_to_seize,
      collateral_to_liquidator |-> 0,
      fully_liquidated |-> TRUE]

\* LiquidationEngine::calculate_liquidation
calculate_liquidation(le, vault_owner, collateral, debt, price) ==
  LET penalty_multiplier == BPS_SCALE + le.liquidation_penalty_bps
      collateral_value_needed == (debt * penalty_multiplier) \div BPS_SCALE
      collateral_to_seize == (collateral_value_needed * SCALE) \div price
      actual_collateral_seized ==
        IF collateral_to_seize > collateral THEN collateral ELSE collateral_to_seize
      debt_covered ==
        IF collateral_to_seize > collateral
          THEN (((collateral * price) * BPS_SCALE) \div SCALE) \div penalty_multiplier
        ELSE debt
      gas_comp_in_collateral == (le.gas_compensation * SCALE) \div price
      collateral_to_liquidator ==
        IF gas_comp_in_collateral > actual_collateral_seized
          THEN actual_collateral_seized \div 100
        ELSE gas_comp_in_collateral
  IN [vault_owner |-> vault_owner,
      debt_liquidated |-> debt_covered,
      collateral_seized |-> actual_collateral_seized,
      collateral_to_sp |-> actual_collateral_seized - collateral_to_liquidator,
      collateral_to_liquidator |-> collateral_to_liquidator,
      fully_liquidated |-> collateral_to_seize <= collateral]

\* LiquidationEngine::execute_liquidation
execute_liquidation(b, sp, result) ==
  LET seized == scspr_seize_collateral(b, result.vault_owner, result.collateral_seized)
      reduced == scspr_reduce_debt(seized.st, result.vault_owner, result.debt_liquidated)
      absorbed == IF result.debt_liquidated # 0
                    THEN offset(sp, "SCSPR", result.debt_liquidated, result.collateral_to_sp)
                  ELSE [err |-> "Ok", st |-> sp, ret |-> 0]
      closed == IF result.fully_liquidated
                  THEN scspr_close_vault_for_liquidation(reduced.st, result.vault_owner)
                ELSE Ok(reduced.st)
      unchanged == [branch_scspr |-> b, stability_pool |-> sp]
  IN IF seized.err # "Ok" THEN Revert(seized.err, unchanged)
     ELSE IF reduced.err # "Ok" THEN Revert(reduced.err, unchanged)
     ELSE IF closed.err # "Ok" THEN Revert(closed.err, unchanged)
     ELSE Ok([branch_scspr |-> closed.st, stability_pool |-> absorbed.st])

\* LiquidationEngine::liquidate (with require_not_safe_mode)
liquidate(le, b, orc, sp, vault_owner, t) ==
  LET vault_data == get_vault_data(b, vault_owner)
      price == le_get_price(orc, "SCSPR", t)
      icr_bps == le_calculate_icr(calculate_collateral_value(vault_data.collateral, price),
                                  vault_data.debt)
      result == calculate_liquidation(le, vault_owner, vault_data.collateral,
                                      vault_data.debt, price)
      le1 == [le EXCEPT !.total_liquidations = @ + 1,
                        !.total_debt_liquidated = @ + result.debt_liquidated,
                        !.total_collateral_seized = @ + result.collateral_seized]
      executed == execute_liquidation(b, sp, result)
  IN IF le.safe_mode.is_active THEN Revert("SafeModeActive", LiquidationCall(le, b, sp))
     ELSE IF vault_data.collateral = 0 /\ vault_data.debt = 0
       THEN Revert("VaultNotFound", LiquidationCall(le, b, sp))
     ELSE IF icr_bps >= MCR_BPS THEN Revert("NotLiquidatable", LiquidationCall(le, b, sp))
     ELSE IF executed.err # "Ok" THEN Revert(executed.err, LiquidationCall(le, b, sp))
     ELSE Ok(LiquidationCall(le1, executed.st.branch_scspr, executed.st.stability_pool))

\* the loop of batch_liquidate over vault_owners[i ..]; `n` counts the vaults liquidated
RECURSIVE batch_loop(_, _, _, _, _, _, _)
batch_loop(le, b, sp, price, vault_owners, i, acc) ==
  IF i > Len(vault_owners) THEN [err |-> "Ok", b |-> b, sp |-> sp, acc |-> acc]
  ELSE
    LET owner == vault_owners[i]
        vault_data == get_vault_data(b, owner)
        icr_bps == le_calculate_icr(
                     calculate_collateral_value(vault_data.collateral, price),
                     vault_data.debt)
        result == calculate_liquidation(le, owner, vault_data.collateral,
                                        vault_data.debt, price)
        executed == execute_liquidation(b, sp, result)
        \* `continue`: the vault does not exist or is not liquidatable
        skipped == \/ vault_data.collateral = 0 /\ vault_data.debt = 0
                   \/ icr_bps >= MCR_BPS
        next == IF skipped THEN [b |-> b, sp |-> sp, acc |-> acc]
                ELSE [b |-> executed.st.branch_scspr,
                      sp |-> executed.st.stability_pool,
                      acc |-> [n |-> acc.n + 1,
                               debt |-> acc.debt + result.debt_liquidated,
                               collateral |-> acc.collateral + result.collateral_seized]]
    IN IF ~skipped /\ executed.err # "Ok"
         THEN [err |-> executed.err, b |-> b, sp |-> sp, acc |-> acc]
       ELSE batch_loop(le, next.b, next.sp, price, vault_owners, i + 1, next.acc)

\* an end of batch_liquidate that leaves the statistics as they were
batch_result_no_stats(le, b, sp, done) ==
  IF done.err # "Ok" THEN Revert(done.err, LiquidationCall(le, b, sp))
  ELSE Ok(LiquidationCall(le, done.b, done.sp))

\* the end of batch_liquidate: the statistics are updated with the totals of the loop
batch_result(le, b, sp, done) ==
  LET le1 == [le EXCEPT !.total_liquidations = @ + done.acc.n,
                        !.total_debt_liquidated = @ + done.acc.debt,
                        !.total_collateral_seized = @ + done.acc.collateral]
  IN IF done.err # "Ok" THEN Revert(done.err, LiquidationCall(le, b, sp))
     ELSE Ok(LiquidationCall(le1, done.b, done.sp))

\* LiquidationEngine::batch_liquidate (with require_not_safe_mode)
batch_liquidate(le, b, orc, sp, vault_owners, max_vaults, t) ==
  LET price == le_get_price(orc, "SCSPR", t)
      taken == SubSeq(vault_owners, 1, min(max_vaults, Len(vault_owners)))
  IN IF le.safe_mode.is_active THEN Revert("SafeModeActive", LiquidationCall(le, b, sp))
     ELSE batch_result(le, b, sp,
                       batch_loop(le, b, sp, price, taken, 1,
                                  [n |-> 0, debt |-> 0, collateral |-> 0]))

\* LiquidationEngine::is_liquidatable
is_liquidatable(b, orc, vault_owner, t) ==
  LET vault_data == get_vault_data(b, vault_owner)
      price == le_get_price(orc, "SCSPR", t)
      icr_bps == le_calculate_icr(calculate_collateral_value(vault_data.collateral, price),
                                  vault_data.debt)
  IN IF vault_data.collateral = 0 /\ vault_data.debt = 0 THEN FALSE
     ELSE icr_bps < MCR_BPS

\* LiquidationEngine::trigger_safe_mode
le_trigger_safe_mode(le, reason, t) ==
  Ok([le EXCEPT !.safe_mode = SafeModeState(TRUE, t, reason)])

\* LiquidationEngine::clear_safe_mode
le_clear_safe_mode(le) == Ok([le EXCEPT !.safe_mode = SafeModeOff])

-----------------------------------------------------------------------------
(* RedemptionEngine (redemption_engine.rs).  re is the engine's storage, b  *)
(* the branch's, sc the stablecoin's.  The engine addresses a vault by its  *)
(* owner alone, which is the interface of BranchScspr: the collateral is    *)
(* "SCSPR".  styks_price is the TWAP the Styks feed answers; no ybToken is  *)
(* set, so the exchange rate is RATE_SCALE.  The custody transfers of       *)
(* collateral are outside the ledgers modelled here.                        *)

\* 50 in the source
BASE_REDEMPTION_FEE_BPS == 50
\* 500 in the source
MAX_REDEMPTION_FEE_BPS == 500
\* 1e18 in the source (1 gUSD); reduced
MIN_REDEMPTION == 1000

\* RedemptionEngine::init
RedemptionEngineInit ==
  [base_fee_bps |-> BASE_REDEMPTION_FEE_BPS,
   max_fee_bps |-> MAX_REDEMPTION_FEE_BPS,
   total_redeemed |-> 0,
   total_collateral_distributed |-> 0,
   total_fees_collected |-> 0,
   safe_mode |-> SafeModeOff]

\* the storage a redemption works on
RedemptionCall(re, b, sc) ==
  [redemption_engine |-> re, branch_scspr |-> b, stablecoin |-> sc]

\* RedemptionEngine::get_current_fee_bps
get_current_fee_bps(re) == min(re.base_fee_bps, re.max_fee_bps)

\* StyksOracle::get_price for "SCSPR" with the default exchange rate
styks_get_price(styks_price) == (styks_price * RATE_SCALE) \div RATE_SCALE

\* the loop of process_redemption over vault_owners[i ..]
RECURSIVE redemption_loop(_, _, _, _, _, _, _)
redemption_loop(b, vault_owners, i, csprusd_remaining, collateral_remaining, price, vaults_touched) ==
  IF i > Len(vault_owners) \/ csprusd_remaining = 0 \/ collateral_remaining = 0
    THEN [err |-> "Ok", b |-> b, vaults_touched |-> vaults_touched]
  ELSE
    LET owner == vault_owners[i][1]
        vault_debt == scspr_get_debt(b, owner)
        vault_collateral == scspr_get_collateral(b, owner)
        debt_to_redeem == IF csprusd_remaining >= vault_debt THEN vault_debt
                          ELSE csprusd_remaining
        collateral_to_take == (debt_to_redeem * SCALE) \div price
        actual_collateral == min(min(collateral_to_take, vault_collateral),
                                 collateral_remaining)
        actual_debt == (actual_collateral * price) \div SCALE
        reduced == scspr_reduce_collateral_for_redemption(b, owner, actual_collateral,
                                                          actual_debt)
    IN IF vault_debt = 0 \/ vault_collateral = 0
         THEN redemption_loop(b, vault_owners, i + 1, csprusd_remaining,
                              collateral_remaining, price, vaults_touched)
       ELSE IF actual_debt = 0 \/ actual_collateral = 0
         THEN redemption_loop(b, vault_owners, i + 1, csprusd_remaining,
                              collateral_remaining, price, vaults_touched)
       ELSE IF reduced.err # "Ok"
         THEN [err |-> reduced.err, b |-> b, vaults_touched |-> vaults_touched]
       ELSE redemption_loop(reduced.st, vault_owners, i + 1,
                            saturating_sub(csprusd_remaining, actual_debt),
                            saturating_sub(collateral_remaining, actual_collateral),
                            price, vaults_touched + 1)

\* RedemptionEngine::process_redemption
process_redemption(b, csprusd_remaining, collateral_remaining, max_iterations, price) ==
  redemption_loop(b,
                  get_sorted_vault_owners(b, IF max_iterations = 0 THEN 10
                                             ELSE max_iterations),
                  1, csprusd_remaining, collateral_remaining, price, 0)

\* RedemptionEngine::redeem (with require_not_safe_mode)
redeem(re, b, sc, redeemer, csprusd_amount, max_fee_bps, max_iterations, styks_price) ==
  LET current_fee_bps == get_current_fee_bps(re)
      price == styks_get_price(styks_price)
      collateral_before_fee == (csprusd_amount * SCALE) \div price
      fee_amount == (collateral_before_fee * current_fee_bps) \div BPS_SCALE
      collateral_after_fee == collateral_before_fee - fee_amount
      processed == process_redemption(b, csprusd_amount, collateral_before_fee,
                                      max_iterations, price)
      burned == transfer_from(sc, "redemption_engine", redeemer, Treasury, csprusd_amount)
      re1 == [re EXCEPT !.total_redeemed = @ + csprusd_amount,
                        !.total_collateral_distributed = @ + collateral_after_fee,
                        !.total_fees_collected = @ + fee_amount]
  IN IF re.safe_mode.is_active THEN Revert("SafeModeActive", RedemptionCall(re, b, sc))
     ELSE IF csprusd_amount < MIN_REDEMPTION
       THEN Revert("BelowMinDebt", RedemptionCall(re, b, sc))
     ELSE IF current_fee_bps > max_fee_bps
       THEN Revert("InvalidConfig", RedemptionCall(re, b, sc))
     ELSE IF price = 0 THEN Revert("InvalidConfig", RedemptionCall(re, b, sc))
     ELSE IF processed.err # "Ok" THEN Revert(processed.err, RedemptionCall(re, b, sc))
     ELSE IF burned.err # "Ok" THEN Revert(burned.err, RedemptionCall(re, b, sc))
     ELSE Ok(RedemptionCall(re1, processed.b, burned.st))

\* RedemptionEngine::trigger_safe_mode
re_trigger_safe_mode(re, reason, t) ==
  Ok([re EXCEPT !.safe_mode = SafeModeState(TRUE, t, reason)])

\* RedemptionEngine::clear_safe_mode
re_clear_safe_mode(re) == Ok([re EXCEPT !.safe_mode = SafeModeOff])

-----------------------------------------------------------------------------
(* The system: initial state and one action per entry point.  A call that   *)
(* reverts is rolled back by the host and leaves every contract as it was:  *)
(* it is a stuttering step.  A call that returns is committed and recorded  *)
(* in `last`.                                                               *)

\* the record of a committed call: contract, entry point and the vault key it names
LastCall(contract, op, key) == [contract |-> contract, op |-> op, key |-> key]

\* a call returns (err is "Ok") and is committed
Called(contract, op, err, key) ==
  /\ ncalls < MaxCalls
  /\ err = "Ok"
  /\ ncalls' = ncalls + 1
  /\ last' = LastCall(contract, op, key)

Init ==
  /\ now = 0
  /\ router = RouterInit
  /\ branch_cspr = BranchCsprInit
  /\ branch_scspr = BranchScsprInit
  /\ oracle = OracleInit
  /\ liquidation_engine = LiquidationEngineInit
  /\ stability_pool = StabilityPoolInit
  /\ redemption_engine = RedemptionEngineInit
  /\ stablecoin = StablecoinInit
  /\ last = LastCall("none", "init", NoKey)
  /\ ncalls = 0

\* the block time advances
Tick ==
  /\ now < MaxTime
  /\ now' = now + 1
  /\ UNCHANGED <<router, branch_cspr, branch_scspr, oracle, liquidation_engine,
                 stability_pool, redemption_engine, stablecoin, last, ncalls>>

\* the debt a vault owes at the block time, as adjust_vault computes it
accrued_debt(vault, t) ==
  accrue_interest(vault.debt, vault.interest_rate_bps,
                  vault.last_accrual_timestamp, t).new_debt

\* BranchCspr.open_vault, called by the router for owner o
OpenVault ==
  \E o \in Owners, c \in CollAmounts, d \in DebtAmounts, r \in Rates :
    /\ branch_cspr.next_vault_id[o] <= MaxVaultId
    /\ LET res == open_vault(branch_cspr, o, c, d, r, now)
       IN /\ branch_cspr' = res.st
          /\ Called("branch_cspr", "open_vault", res.err, <<o, branch_cspr.next_vault_id[o]>>)
    /\ UNCHANGED <<now, router, branch_scspr, oracle, liquidation_engine,
                   stability_pool, redemption_engine, stablecoin>>

\* BranchCspr.adjust_vault, called by the router for owner k[1]
AdjustVault ==
  \E k \in CsprKeys, cw \in BOOLEAN, dr \in BOOLEAN :
    \E c \in CollAmounts \cup {branch_cspr.vaults[k].collateral},
       d \in DebtAmounts \cup {accrued_debt(branch_cspr.vaults[k], now)} :
      /\ cw \/ branch_cspr.vaults[k].collateral + c <= MaxCollateral
      /\ LET res == adjust_vault(branch_cspr, k[1], k[2], c, cw, d, dr, now)
         IN /\ branch_cspr' = res.st
            /\ Called("branch_cspr", "adjust_vault", res.err, k)
      /\ UNCHANGED <<now, router, branch_scspr, oracle, liquidation_engine,
                     stability_pool, redemption_engine, stablecoin>>

\* BranchCspr.adjust_interest_rate, called by the router for owner k[1]
AdjustInterestRate ==
  \E k \in CsprKeys, r \in Rates :
    /\ LET res == adjust_interest_rate(branch_cspr, k[1], k[2], r, now)
       IN /\ branch_cspr' = res.st
          /\ Called("branch_cspr", "adjust_interest_rate", res.err, k)
    /\ UNCHANGED <<now, router, branch_scspr, oracle, liquidation_engine,
                   stability_pool, redemption_engine, stablecoin>>

\* BranchCspr.close_vault, called by the router for owner k[1]
CloseVault ==
  \E k \in CsprKeys :
    /\ LET res == close_vault(branch_cspr, k[1], k[2])
       IN /\ branch_cspr' = res.st
          /\ Called("branch_cspr", "close_vault", res.err, k)
    /\ UNCHANGED <<now, router, branch_scspr, oracle, liquidation_engine,
                   stability_pool, redemption_engine, stablecoin>>

\* BranchCspr.reduce_collateral_for_redemption
ReduceCollateralForRedemption ==
  \E k \in CsprKeys :
    \E c \in CollAmounts \cup {branch_cspr.vaults[k].collateral},
       d \in DebtAmounts \cup {branch_cspr.vaults[k].debt} :
      /\ LET res == reduce_collateral_for_redemption(branch_cspr, k[1], k[2], c, d)
         IN /\ branch_cspr' = res.st
            /\ Called("branch_cspr", "reduce_collateral_for_redemption", res.err, k)
      /\ UNCHANGED <<now, router, branch_scspr, oracle, liquidation_engine,
                     stability_pool, redemption_engine, stablecoin>>

\* BranchCspr.seize_collateral
SeizeCollateral ==
  \E k \in CsprKeys :
    \E c \in CollAmounts \cup {branch_cspr.vaults[k].collateral} :
      /\ LET res == seize_collateral(branch_cspr, k[1], k[2], c)
         IN /\ branch_cspr' = res.st
            /\ Called("branch_cspr", "seize_collateral", res.err, k)
      /\ UNCHANGED <<now, router, branch_scspr, oracle, liquidation_engine,
                     stability_pool, redemption_engine, stablecoin>>

\* BranchCspr.reduce_debt
ReduceDebt ==
  \E k \in CsprKeys :
    \E d \in DebtAmounts \cup {branch_cspr.vaults[k].debt} :
      /\ LET res == reduce_debt(branch_cspr, k[1], k[2], d)
         IN /\ branch_cspr' = res.st
            /\ Called("branch_cspr", "reduce_debt", res.err, k)
      /\ UNCHANGED <<now, router, branch_scspr, oracle, liquidation_engine,
                     stability_pool, redemption_engine, stablecoin>>

\* BranchCspr.close_vault_for_liquidation
CloseVaultForLiquidation ==
  \E k \in CsprKeys :
    /\ LET res == close_vault_for_liquidation(branch_cspr, k[1], k[2])
       IN /\ branch_cspr' = res.st
          /\ Called("branch_cspr", "close_vault_for_liquidation", res.err, k)
    /\ UNCHANGED <<now, router, branch_scspr, oracle, liquidation_engine,
                   stability_pool, redemption_engine, stablecoin>>

\* BranchCspr.update_price
UpdatePrice ==
  \E p \in Prices :
    /\ branch_cspr' = update_price(branch_cspr, p).st
    /\ Called("branch_cspr", "update_price", "Ok", NoKey)
    /\ UNCHANGED <<now, router, branch_scspr, oracle, liquidation_engine,
                   stability_pool, redemption_engine, stablecoin>>

\* BranchScspr.open_vault, called by owner o
ScsprOpenVault ==
  \E o \in Owners, c \in ScsprCollAmounts, d \in ScsprDebtAmounts, r \in Rates :
    /\ LET res == scspr_open_vault(branch_scspr, o, c, d, r, now)
       IN /\ branch_scspr' = res.st
          /\ Called("branch_scspr", "open_vault", res.err, <<o>>)
    /\ UNCHANGED <<now, router, branch_cspr, oracle, liquidation_engine,
                   stability_pool, redemption_engine, stablecoin>>

\* BranchScspr.adjust_vault, called by owner o
ScsprAdjustVault ==
  \E o \in Owners, cw \in BOOLEAN, dr \in BOOLEAN :
    \E c \in ScsprCollAmounts \cup {branch_scspr.vaults[<<o>>].collateral},
       d \in ScsprDebtAmounts \cup {accrued_debt(branch_scspr.vaults[<<o>>], now)} :
      /\ cw \/ branch_scspr.vaults[<<o>>].collateral + c <= MaxCollateral
      /\ LET res == scspr_adjust_vault(branch_scspr, o, c, cw, d, dr, now)
         IN /\ branch_scspr' = res.st
            /\ Called("branch_scspr", "adjust_vault", res.err, <<o>>)
      /\ UNCHANGED <<now, router, branch_cspr, oracle, liquidation_engine,
                     stability_pool, redemption_engine, stablecoin>>

\* BranchScspr.close_vault, called by owner o
ScsprCloseVault ==
  \E o \in Owners :
    /\ LET res == scspr_close_vault(branch_scspr, o)
       IN /\ branch_scspr' = res.st
          /\ Called("branch_scspr", "close_vault", res.err, <<o>>)
    /\ UNCHANGED <<now, router, branch_cspr, oracle, liquidation_engine,
                   stability_pool, redemption_engine, stablecoin>>

\* BranchScspr.reduce_collateral_for_redemption
ScsprReduceCollateralForRedemption ==
  \E o \in Owners :
    \E c \in ScsprCollAmounts \cup {branch_scspr.vaults[<<o>>].collateral},
       d \in ScsprDebtAmounts \cup {branch_scspr.vaults[<<o>>].debt} :
      /\ LET res == scspr_reduce_collateral_for_redemption(branch_scspr, o, c, d)
         IN /\ branch_scspr' = res.st
            /\ Called("branch_scspr", "reduce_collateral_for_redemption", res.err, <<o>>)
      /\ UNCHANGED <<now, router, branch_cspr, oracle, liquidation_engine,
                     stability_pool, redemption_engine, stablecoin>>

\* BranchScspr.seize_collateral
ScsprSeizeCollateral ==
  \E o \in Owners :
    \E c \in ScsprCollAmounts \cup {branch_scspr.vaults[<<o>>].collateral} :
      /\ LET res == scspr_seize_collateral(branch_scspr, o, c)
         IN /\ branch_scspr' = res.st
            /\ Called("branch_scspr", "seize_collateral", res.err, <<o>>)
      /\ UNCHANGED <<now, router, branch_cspr, oracle, liquidation_engine,
                     stability_pool, redemption_engine, stablecoin>>

\* BranchScspr.reduce_debt
ScsprReduceDebt ==
  \E o \in Owners :
    \E d \in ScsprDebtAmounts \cup {branch_scspr.vaults[<<o>>].debt} :
      /\ LET res == scspr_reduce_debt(branch_scspr, o, d)
         IN /\ branch_scspr' = res.st
            /\ Called("branch_scspr", "reduce_debt", res.err, <<o>>)
      /\ UNCHANGED <<now, router, branch_cspr, oracle, liquidation_engine,
                     stability_pool, redemption_engine, stablecoin>>

\* BranchScspr.close_vault_for_liquidation
ScsprCloseVaultForLiquidation ==
  \E o \in Owners :
    /\ LET res == scspr_close_vault_for_liquidation(branch_scspr, o)
       IN /\ branch_scspr' = res.st
          /\ Called("branch_scspr", "close_vault_for_liquidation", res.err, <<o>>)
    /\ UNCHANGED <<now, router, branch_cspr, oracle, liquidation_engine,
                   stability_pool, redemption_engine, stablecoin>>

\* BranchScspr.update_price
ScsprUpdatePrice ==
  \E p \in Prices :
    /\ branch_scspr' = scspr_update_price(branch_scspr, p).st
    /\ Called("branch_scspr", "update_price", "Ok", NoKey)
    /\ UNCHANGED <<now, router, branch_cspr, oracle, liquidation_engine,
                   stability_pool, redemption_engine, stablecoin>>

\* BranchScspr.update_exchange_rate
ScsprUpdateExchangeRate ==
  \E r \in ExchangeRates :
    /\ LET res == scspr_update_exchange_rate(branch_scspr, r)
       IN /\ branch_scspr' = res.st
          /\ Called("branch_scspr", "update_exchange_rate", res.err, NoKey)
    /\ UNCHANGED <<now, router, branch_cspr, oracle, liquidation_engine,
                   stability_pool, redemption_engine, stablecoin>>

\* The two vault ledgers share no storage and a call to one reads nothing of the
\* other, so a run drives one branch and leaves the other as deployed.
OnlyCspr == branch_scspr = BranchScsprInit
OnlyScspr == branch_cspr = BranchCsprInit

Next ==
  \/ Tick
  \/ (OnlyCspr /\ OpenVault)
  \/ (OnlyCspr /\ AdjustVault)
  \/ (OnlyCspr /\ AdjustInterestRate)
  \/ (OnlyCspr /\ CloseVault)
  \/ (OnlyCspr /\ ReduceCollateralForRedemption)
  \/ (OnlyCspr /\ SeizeCollateral)
  \/ (OnlyCspr /\ ReduceDebt)
  \/ (OnlyCspr /\ CloseVaultForLiquidation)
  \/ (OnlyCspr /\ UpdatePrice)
  \/ (OnlyScspr /\ ScsprOpenVault)
  \/ (OnlyScspr /\ ScsprAdjustVault)
  \/ (OnlyScspr /\ ScsprCloseVault)
  \/ (OnlyScspr /\ ScsprReduceCollateralForRedemption)
  \/ (OnlyScspr /\ ScsprSeizeCollateral)
  \/ (OnlyScspr /\ ScsprReduceDebt)
  \/ (OnlyScspr /\ ScsprCloseVaultForLiquidation)
  \/ (OnlyScspr /\ ScsprUpdatePrice)
  \/ (OnlyScspr /\ ScsprUpdateExchangeRate)

Spec == Init /\ [][Next]_vars

-----------------------------------------------------------------------------
(* Runs that only insert into and remove from the sorted list: vaults are   *)
(* opened with one valid amount pair, re-rated and closed (by the owner, by *)
(* a liquidation, by a redemption of the whole vault).                      *)

\* a call of such a run returns and is committed
ListCalled(contract, op, err, key) ==
  /\ ncalls < MaxListCalls
  /\ err = "Ok"
  /\ ncalls' = ncalls + 1
  /\ last' = LastCall(contract, op, key)

\* BranchCspr.open_vault with 3 collateral and MIN_DEBT
ListOpenVault ==
  \E o \in Owners, r \in Rates :
    /\ branch_cspr.next_vault_id[o] <= MaxVaultId
    /\ LET res == open_vault(branch_cspr, o, 3, MinDebtCspr, r, now)
       IN /\ branch_cspr' = res.st
          /\ ListCalled("branch_cspr", "open_vault", res.err,
                        <<o, branch_cspr.next_vault_id[o]>>)
    /\ UNCHANGED <<now, router, branch_scspr, oracle, liquidation_engine,
                   stability_pool, redemption_engine, stablecoin>>

\* BranchCspr.adjust_interest_rate
ListAdjustInterestRate ==
  \E k \in CsprKeys, r \in Rates :
    /\ LET res == adjust_interest_rate(branch_cspr, k[1], k[2], r, now)
       IN /\ branch_cspr' = res.st
          /\ ListCalled("branch_cspr", "adjust_interest_rate", res.err, k)
    /\ UNCHANGED <<now, router, branch_scspr, oracle, liquidation_engine,
                   stability_pool, redemption_engine, stablecoin>>

\* BranchCspr.close_vault
ListCloseVault ==
  \E k \in CsprKeys :
    /\ LET res == close_vault(branch_cspr, k[1], k[2])
       IN /\ branch_cspr' = res.st
          /\ ListCalled("branch_cspr", "close_vault", res.err, k)
    /\ UNCHANGED <<now, router, branch_scspr, oracle, liquidation_engine,
                   stability_pool, redemption_engine, stablecoin>>

\* BranchCspr.close_vault_for_liquidation
ListCloseVaultForLiquidation ==
  \E k \in CsprKeys :
    /\ LET res == close_vault_for_liquidation(branch_cspr, k[1], k[2])
       IN /\ branch_cspr' = res.st
          /\ ListCalled("branch_cspr", "close_vault_for_liquidation", res.err, k)
    /\ UNCHANGED <<now, router, branch_scspr, oracle, liquidation_engine,
                   stability_pool, redemption_engine, stablecoin>>

\* BranchCspr.reduce_collateral_for_redemption of the whole vault
ListRedeemVault ==
  \E k \in CsprKeys :
    /\ LET res == reduce_collateral_for_redemption(branch_cspr, k[1], k[2],
                     branch_cspr.vaults[k].collateral, branch_cspr.vaults[k].debt)
       IN /\ branch_cspr' = res.st
          /\ ListCalled("branch_cspr", "reduce_collateral_for_redemption", res.err, k)
    /\ UNCHANGED <<now, router, branch_scspr, oracle, liquidation_engine,
                   stability_pool, redemption_engine, stablecoin>>

\* BranchScspr.open_vault with 5 collateral and MIN_DEBT
ListScsprOpenVault ==
  \E o \in Owners, r \in Rates :
    /\ LET res == scspr_open_vault(branch_scspr, o, 5, MinDebtScspr, r, now)
       IN /\ branch_scspr' = res.st
          /\ ListCalled("branch_scspr", "open_vault", res.err, <<o>>)
    /\ UNCHANGED <<now, router, branch_cspr, oracle, liquidation_engine,
                   stability_pool, redemption_engine, stablecoin>>

\* BranchScspr.close_vault
ListScsprCloseVault ==
  \E o \in Owners :
    /\ LET res == scspr_close_vault(branch_scspr, o)
       IN /\ branch_scspr' = res.st
          /\ ListCalled("branch_scspr", "close_vault", res.err, <<o>>)
    /\ UNCHANGED <<now, router, branch_cspr, oracle, liquidation_engine,
                   stability_pool, redemption_engine, stablecoin>>

\* BranchScspr.close_vault_for_liquidation
ListScsprCloseVaultForLiquidation ==
  \E o \in Owners :
    /\ LET res == scspr_close_vault_for_liquidation(branch_scspr, o)
       IN /\ branch_scspr' = res.st
          /\ ListCalled("branch_scspr", "close_vault_for_liquidation", res.err, <<o>>)
    /\ UNCHANGED <<now, router, branch_cspr, oracle, liquidation_engine,
                   stability_pool, redemption_engine, stablecoin>>

\* BranchScspr.reduce_collateral_for_redemption of the whole vault
ListScsprRedeemVault ==
  \E o \in Owners :
    /\ LET res == scspr_reduce_collateral_for_redemption(branch_scspr, o,
                     branch_scspr.vaults[<<o>>].collateral, branch_scspr.vaults[<<o>>].debt)
       IN /\ branch_scspr' = res.st
          /\ ListCalled("branch_scspr", "reduce_collateral_for_redemption", res.err, <<o>>)
    /\ UNCHANGED <<now, router, branch_cspr, oracle, liquidation_engine,
                   stability_pool, redemption_engine, stablecoin>>

NextList ==
  \/ (OnlyCspr /\ ListOpenVault)
  \/ (OnlyCspr /\ ListAdjustInterestRate)
  \/ (OnlyCspr /\ ListCloseVault)
  \/ (OnlyCspr /\ ListCloseVaultForLiquidation)
  \/ (OnlyCspr /\ ListRedeemVault)
  \/ (OnlyScspr /\ ListScsprOpenVault)
  \/ (OnlyScspr /\ ListScsprCloseVault)
  \/ (OnlyScspr /\ ListScsprCloseVaultForLiquidation)
  \/ (OnlyScspr /\ ListScsprRedeemVault)

SpecList == Init /\ [][NextList]_vars

-----------------------------------------------------------------------------
(* The protocol under safe mode: the entry points of the router, the        *)
(* stablecoin, the oracle adapter, the stability pool, the liquidation      *)
(* engine and the redemption engine, and the owner-facing and safe-mode     *)
(* entry points of BranchScspr.                                             *)

\* reasons a caller passes to trigger_safe_mode
SafeReasons == {"Stale", "Deviation"}
\* prices fed to the oracle (0 is out of bounds, 1040 within 5% of 1000, 2000 deviates)
OraclePrices == {0, 1000, 1040, 2000}
\* exchange rates fed to the oracle (4 is out of bounds)
OracleRates == {4, 10, 12}
\* amounts a depositor passes to the pool (0 is below MIN_DEPOSIT)
DepositAmounts == {0, 1000}
\* amounts a redeemer passes (500 is below MIN_REDEMPTION)
RedeemAmounts == {500, 1000}

\* Router.open_vault, called by owner o
RouterOpenVault ==
  \E o \in Owners, c \in CollAmounts, d \in DebtAmounts, r \in Rates :
    /\ branch_cspr.next_vault_id[o] <= MaxVaultId
    /\ LET res == router_open_vault(router, branch_cspr, stablecoin, o, c, d, r, now)
       IN /\ branch_cspr' = res.st.branch_cspr
          /\ stablecoin' = res.st.stablecoin
          /\ Called("router", "open_vault", res.err, <<o, branch_cspr.next_vault_id[o]>>)
    /\ UNCHANGED <<now, router, branch_scspr, oracle, liquidation_engine,
                   stability_pool, redemption_engine>>

\* Router.adjust_vault, called by owner k[1]
RouterAdjustVault ==
  \E k \in CsprKeys, cw \in BOOLEAN, dr \in BOOLEAN :
    \E c \in CollAmounts \cup {branch_cspr.vaults[k].collateral},
       d \in DebtAmounts \cup {accrued_debt(branch_cspr.vaults[k], now)} :
      /\ cw \/ branch_cspr.vaults[k].collateral + c <= MaxCollateral
      /\ LET res == router_adjust_vault(router, branch_cspr, stablecoin,
                                        k[1], k[2], c, cw, d, dr, now)
         IN /\ branch_cspr' = res.st.branch_cspr
            /\ stablecoin' = res.st.stablecoin
            /\ Called("router", "adjust_vault", res.err, k)
      /\ UNCHANGED <<now, router, branch_scspr, oracle, liquidation_engine,
                     stability_pool, redemption_engine>>

\* Router.close_vault, called by owner k[1]
RouterCloseVault ==
  \E k \in CsprKeys :
    /\ LET res == router_close_vault(router, branch_cspr, stablecoin, k[1], k[2])
       IN /\ branch_cspr' = res.st.branch_cspr
          /\ stablecoin' = res.st.stablecoin
          /\ Called("router", "close_vault", res.err, k)
    /\ UNCHANGED <<now, router, branch_scspr, oracle, liquidation_engine,
                   stability_pool, redemption_engine>>

\* Router.trigger_safe_mode
RouterTriggerSafeMode ==
  \E reason \in SafeReasons :
    /\ LET res == router_trigger_safe_mode(router, reason, now)
       IN /\ router' = res.st
          /\ Called("router", "trigger_safe_mode", res.err, NoKey)
    /\ UNCHANGED <<now, branch_cspr, branch_scspr, oracle, liquidation_engine,
                   stability_pool, redemption_engine, stablecoin>>

\* Router.clear_safe_mode
RouterClearSafeMode ==
  /\ LET res == router_clear_safe_mode(router)
     IN /\ router' = res.st
        /\ Called("router", "clear_safe_mode", res.err, NoKey)
  /\ UNCHANGED <<now, branch_cspr, branch_scspr, oracle, liquidation_engine,
                 stability_pool, redemption_engine, stablecoin>>

\* CsprUsd.approve, called by owner o
Approve ==
  \E o \in Owners, s \in Spenders :
    \E a \in DebtAmounts \cup {stablecoin.balances[o]} :
      /\ LET res == approve(stablecoin, o, s, a)
         IN /\ stablecoin' = res.st
            /\ Called("stablecoin", "approve", res.err, NoKey)
      /\ UNCHANGED <<now, router, branch_cspr, branch_scspr, oracle, liquidation_engine,
                     stability_pool, redemption_engine>>

\* OracleAdapter.update_cspr_price
OracleUpdateCsprPrice ==
  \E p \in OraclePrices, ts \in 0 .. now :
    /\ LET res == update_cspr_price(oracle, p, ts, now)
       IN /\ oracle' = res.st
          /\ Called("oracle", "update_cspr_price", res.err, NoKey)
    /\ UNCHANGED <<now, router, branch_cspr, branch_scspr, liquidation_engine,
                   stability_pool, redemption_engine, stablecoin>>

\* OracleAdapter.update_exchange_rate
OracleUpdateExchangeRate ==
  \E r \in OracleRates :
    /\ LET res == update_exchange_rate(oracle, r, now)
       IN /\ oracle' = res.st
          /\ Called("oracle", "update_exchange_rate", res.err, NoKey)
    /\ UNCHANGED <<now, router, branch_cspr, branch_scspr, liquidation_engine,
                   stability_pool, redemption_engine, stablecoin>>

\* OracleAdapter.refresh_price
OracleRefreshPrice ==
  /\ LET res == refresh_price(oracle, now)
     IN /\ oracle' = res.st
        /\ Called("oracle", "refresh_price", res.err, NoKey)
  /\ UNCHANGED <<now, router, branch_cspr, branch_scspr, liquidation_engine,
                 stability_pool, redemption_engine, stablecoin>>

\* OracleAdapter.clear_degraded_mode
OracleClearDegradedMode ==
  /\ LET res == clear_degraded_mode(oracle, now)
     IN /\ oracle' = res.st
        /\ Called("oracle", "clear_degraded_mode", res.err, NoKey)
  /\ UNCHANGED <<now, router, branch_cspr, branch_scspr, liquidation_engine,
                 stability_pool, redemption_engine, stablecoin>>

\* BranchScspr.trigger_safe_mode
ScsprTriggerSafeMode ==
  \E reason \in SafeReasons :
    /\ LET res == scspr_trigger_safe_mode(branch_scspr, reason, now)
       IN /\ branch_scspr' = res.st
          /\ Called("branch_scspr", "trigger_safe_mode", res.err, NoKey)
    /\ UNCHANGED <<now, router, branch_cspr, oracle, liquidation_engine,
                   stability_pool, redemption_engine, stablecoin>>

\* BranchScspr.clear_safe_mode
ScsprClearSafeMode ==
  /\ LET res == scspr_clear_safe_mode(branch_scspr)
     IN /\ branch_scspr' = res.st
        /\ Called("branch_scspr", "clear_safe_mode", res.err, NoKey)
  /\ UNCHANGED <<now, router, branch_cspr, oracle, liquidation_engine,
                 stability_pool, redemption_engine, stablecoin>>

\* StabilityPool.deposit, called by depositor o
SpDeposit ==
  \E o \in Owners, a \in DepositAmounts :
    /\ LET res == deposit(stability_pool, o, a)
       IN /\ stability_pool' = res.st
          /\ Called("stability_pool", "deposit", res.err, NoKey)
    /\ UNCHANGED <<now, router, branch_cspr, branch_scspr, oracle, liquidation_engine,
                   redemption_engine, stablecoin>>

\* StabilityPool.withdraw, called by depositor o
SpWithdraw ==
  \E o \in Owners, a \in DepositAmounts :
    /\ LET res == withdraw(stability_pool, o, a)
       IN /\ stability_pool' = res.st
          /\ Called("stability_pool", "withdraw", res.err, NoKey)
    /\ UNCHANGED <<now, router, branch_cspr, branch_scspr, oracle, liquidation_engine,
                   redemption_engine, stablecoin>>

\* StabilityPool.claim_gains, called by depositor o
SpClaimGains ==
  \E o \in Owners :
    /\ LET res == claim_gains(stability_pool, o)
       IN /\ stability_pool' = res.st
          /\ Called("stability_pool", "claim_gains", res.err, NoKey)
    /\ UNCHANGED <<now, router, branch_cspr, branch_scspr, oracle, liquidation_engine,
                   redemption_engine, stablecoin>>

\* StabilityPool.trigger_safe_mode
SpTriggerSafeMode ==
  \E reason \in SafeReasons :
    /\ LET res == sp_trigger_safe_mode(stability_pool, reason, now)
       IN /\ stability_pool' = res.st
          /\ Called("stability_pool", "trigger_safe_mode", res.err, NoKey)
    /\ UNCHANGED <<now, router, branch_cspr, branch_scspr, oracle, liquidation_engine,
                   redemption_engine, stablecoin>>

\* StabilityPool.clear_safe_mode
SpClearSafeMode ==
  /\ LET res == sp_clear_safe_mode(stability_pool)
     IN /\ stability_pool' = res.st
        /\ Called("stability_pool", "clear_safe_mode", res.err, NoKey)
  /\ UNCHANGED <<now, router, branch_cspr, branch_scspr, oracle, liquidation_engine,
                 redemption_engine, stablecoin>>

\* LiquidationEngine.liquidate of owner o's vault
Liquidate ==
  \E o \in Owners :
    /\ LET res == liquidate(liquidation_engine, branch_scspr, oracle, stability_pool,
                            o, now)
       IN /\ liquidation_engine' = res.st.liquidation_engine
          /\ branch_scspr' = res.st.branch_scspr
          /\ stability_pool' = res.st.stability_pool
          /\ Called("liquidation_engine", "liquidate", res.err, <<o>>)
    /\ UNCHANGED <<now, router, branch_cspr, oracle, redemption_engine, stablecoin>>

\* LiquidationEngine.batch_liquidate of the vaults of owners o1 and o2
BatchLiquidate ==
  \E o1 \in Owners, o2 \in Owners, max_vaults \in 1 .. 2 :
    /\ LET res == batch_liquidate(liquidation_engine, branch_scspr, oracle,
                                  stability_pool, <<o1, o2>>, max_vaults, now)
       IN /\ liquidation_engine' = res.st.liquidation_engine
          /\ branch_scspr' = res.st.branch_scspr
          /\ stability_pool' = res.st.stability_pool
          /\ Called("liquidation_engine", "batch_liquidate", res.err, NoKey)
    /\ UNCHANGED <<now, router, branch_cspr, oracle, redemption_engine, stablecoin>>

\* LiquidationEngine.trigger_safe_mode
LeTriggerSafeMode ==
  \E reason \in SafeReasons :
    /\ LET res == le_trigger_safe_mode(liquidation_engine, reason, now)
       IN /\ liquidation_engine' = res.st
          /\ Called("liquidation_engine", "trigger_safe_mode", res.err, NoKey)
    /\ UNCHANGED <<now, router, branch_cspr, branch_scspr, oracle, stability_pool,
                   redemption_engine, stablecoin>>

\* LiquidationEngine.clear_safe_mode
LeClearSafeMode ==
  /\ LET res == le_clear_safe_mode(liquidation_engine)
     IN /\ liquidation_engine' = res.st
        /\ Called("liquidation_engine", "clear_safe_mode", res.err, NoKey)
  /\ UNCHANGED <<now, router, branch_cspr, branch_scspr, oracle, stability_pool,
                 redemption_engine, stablecoin>>

\* RedemptionEngine.redeem, called by redeemer o
Redeem ==
  \E o \in Owners, a \in RedeemAmounts, p \in Prices :
    /\ LET res == redeem(redemption_engine, branch_scspr, stablecoin, o, a,
                         MAX_REDEMPTION_FEE_BPS, 0, p)
       IN /\ redemption_engine' = res.st.redemption_engine
          /\ branch_scspr' = res.st.branch_scspr
          /\ stablecoin' = res.st.stablecoin
          /\ Called("redemption_engine", "redeem", res.err, NoKey)
    /\ UNCHANGED <<now, router, branch_cspr, oracle, liquidation_engine, stability_pool>>

\* RedemptionEngine.trigger_safe_mode
ReTriggerSafeMode ==
  \E reason \in SafeReasons :
    /\ LET res == re_trigger_safe_mode(redemption_engine, reason, now)
       IN /\ redemption_engine' = res.st
          /\ Called("redemption_engine", "trigger_safe_mode", res.err, NoKey)
    /\ UNCHANGED <<now, router, branch_cspr, branch_scspr, oracle, liquidation_engine,
                   stability_pool, stablecoin>>

\* RedemptionEngine.clear_safe_mode
ReClearSafeMode ==
  /\ LET res == re_clear_safe_mode(redemption_engine)
     IN /\ redemption_engine' = res.st
        /\ Called("redemption_engine", "clear_safe_mode", res.err, NoKey)
  /\ UNCHANGED <<now, router, branch_cspr, branch_scspr, oracle, liquidation_engine,
                 stability_pool, stablecoin>>

\* a run under safe mode commits at most MaxSafeCalls calls
SafeBudget == ncalls < MaxSafeCalls

NextSafe ==
  \/ Tick
  \/ (SafeBudget /\ RouterOpenVault)
  \/ (SafeBudget /\ RouterAdjustVault)
  \/ (SafeBudget /\ RouterCloseVault)
  \/ (SafeBudget /\ RouterTriggerSafeMode)
  \/ (SafeBudget /\ RouterClearSafeMode)
  \/ (SafeBudget /\ Approve)
  \/ (SafeBudget /\ OracleUpdateCsprPrice)
  \/ (SafeBudget /\ OracleUpdateExchangeRate)
  \/ (SafeBudget /\ OracleRefreshPrice)
  \/ (SafeBudget /\ OracleClearDegradedMode)
  \/ (SafeBudget /\ UpdatePrice)
  \/ (SafeBudget /\ ScsprOpenVault)
  \/ (SafeBudget /\ ScsprAdjustVault)
  \/ (SafeBudget /\ ScsprCloseVault)
  \/ (SafeBudget /\ ScsprTriggerSafeMode)
  \/ (SafeBudget /\ ScsprClearSafeMode)
  \/ (SafeBudget /\ ScsprUpdatePrice)
  \/ (SafeBudget /\ ScsprUpdateExchangeRate)
  \/ (SafeBudget /\ SpDeposit)
  \/ (SafeBudget /\ SpWithdraw)
  \/ (SafeBudget /\ SpClaimGains)
  \/ (SafeBudget /\ SpTriggerSafeMode)
  \/ (SafeBudget /\ SpClearSafeMode)
  \/ (SafeBudget /\ Liquidate)
  \/ (SafeBudget /\ BatchLiquidate)
  \/ (SafeBudget /\ LeTriggerSafeMode)
  \/ (SafeBudget /\ LeClearSafeMode)
  \/ (SafeBudget /\ Redeem)
  \/ (SafeBudget /\ ReTriggerSafeMode)
  \/ (SafeBudget /\ ReClearSafeMode)

SpecSafe == Init /\ [][NextSafe]_vars

-----------------------------------------------------------------------------
(* Properties of the vault ledgers *)

RECURSIVE SumOver(_, _)
\* the sum of f[k] over the keys in S
SumOver(S, f) ==
  IF S = {} THEN 0
  ELSE LET k == CHOOSE x \in S : TRUE IN f[k] + SumOver(S \ {k}, f)

\* the elements of a sequence
Range(seq) == {seq[i] : i \in DOMAIN seq}

\* the vaults of a branch that hold collateral or debt
ActiveVaults(b) == {k \in DOMAIN b.vaults : b.vaults[k].some /\ ~is_empty(b.vaults[k])}

\* the keys met walking from sorted_head along next; one key more than the
\* branch has when the walk does not end
ListWalk(b) == get_sorted_vault_owners(b, Cardinality(DOMAIN b.vaults) + 1)

\* the value remove_from_sorted_list leaves in a removed entry
ClearedEntry == SortedVaultEntry(0, NoKey, NoKey)

\* the entries of the list: those met from the head, and those inserted and not removed
ListEntries(b) ==
  Range(ListWalk(b)) \cup {k \in DOMAIN b.sorted_vaults :
                             b.sorted_vaults[k].some /\ b.sorted_vaults[k] # ClearedEntry}

TotalsMatch(b) ==
  /\ b.total_collateral = SumOver(DOMAIN b.vaults, [k \in DOMAIN b.vaults |-> b.vaults[k].collateral])
  /\ b.total_debt = SumOver(DOMAIN b.vaults, [k \in DOMAIN b.vaults |-> b.vaults[k].debt])

IndexMatchesVaults(b) ==
  LET w == ListWalk(b)
  IN /\ Len(w) <= Cardinality(DOMAIN b.vaults)
     /\ Range(w) = ActiveVaults(b)
     /\ Cardinality(Range(w)) = Len(w)
     /\ b.vault_count = Cardinality(ActiveVaults(b))

WalkAscending(b) ==
  LET w == ListWalk(b)
  IN /\ \A i \in 1 .. Len(w) - 1 :
          /\ b.sorted_vaults[w[i]].some /\ b.sorted_vaults[w[i + 1]].some
          /\ b.sorted_vaults[w[i]].interest_rate_bps
               <= b.sorted_vaults[w[i + 1]].interest_rate_bps
     /\ IF Len(w) = 0 THEN b.sorted_tail = NoKey
        ELSE /\ Len(w) <= Cardinality(DOMAIN b.vaults)
             /\ w[Len(w)] = b.sorted_tail

LinksConsistent(b) ==
  LET w == ListWalk(b)
  IN /\ Len(w) <= Cardinality(DOMAIN b.vaults)
     /\ \A k \in ListEntries(b) :
          LET e == b.sorted_vaults[k]
          IN /\ e.some
             /\ IF e.prev # NoKey
                  THEN /\ e.prev \in ListEntries(b) /\ b.sorted_vaults[e.prev].some
                       /\ b.sorted_vaults[e.prev].next = k
                  ELSE b.sorted_head = k
             /\ IF e.next # NoKey
                  THEN /\ e.next \in ListEntries(b) /\ b.sorted_vaults[e.next].some
                       /\ b.sorted_vaults[e.next].prev = k
                  ELSE b.sorted_tail = k

\* C1: in both branches total_collateral is the sum of the vaults' collateral and
\* total_debt the sum of their stored debt, after every sequence of committed calls
C1_TotalsMatch == TotalsMatch(branch_cspr) /\ TotalsMatch(branch_scspr)

\* C2: in both branches the keys met from sorted_head are exactly the vaults that hold
\* collateral or debt, each once, and vault_count is their number
C2_IndexMatchesVaults == IndexMatchesVaults(branch_cspr) /\ IndexMatchesVaults(branch_scspr)

\* C3: in both branches the walk from sorted_head is non-decreasing in
\* interest_rate_bps and ends at sorted_tail
C3_WalkAscending == WalkAscending(branch_cspr) /\ WalkAscending(branch_scspr)

\* C4: in both branches the links of the list are mutually consistent, end at
\* sorted_head and sorted_tail, reach no removed entry and form no cycle
C4_LinksConsistent == LinksConsistent(branch_cspr) /\ LinksConsistent(branch_scspr)

\* the ICR of the stored vault k of BranchCspr at the cached price
VaultIcr(b, k) ==
  calculate_icr(get_collateral_value(b, b.vaults[k].collateral), b.vaults[k].debt)

\* the ICR of the stored vault k of BranchScspr at the cached price and rate
ScsprVaultIcr(b, k) ==
  scspr_calculate_icr(scspr_get_collateral_value(b, b.vaults[k].collateral), b.vaults[k].debt)

\* C5: right after a committed open_vault or adjust_vault that leaves the vault
\* non-empty, the vault's ICR at the cached price is at least MCR_BPS
C5_IcrAfterOpenAdjust ==
  /\ (/\ last.contract = "branch_cspr"
      /\ last.op \in {"open_vault", "adjust_vault"}
      /\ ~is_empty(branch_cspr.vaults[last.key]))
       => VaultIcr(branch_cspr, last.key) >= MCR_BPS
  /\ (/\ last.contract = "branch_scspr"
      /\ last.op \in {"open_vault", "adjust_vault"}
      /\ ~is_empty(branch_scspr.vaults[last.key]))
       => ScsprVaultIcr(branch_scspr, last.key) >= MCR_BPS

\* C1 witness: BranchCspr holds two vaults, one of them with interest accrued into
\* its stored debt, after a liquidation lowered a vault's debt
C1_Witness ==
  /\ last.contract = "branch_cspr" /\ last.op = "reduce_debt"
  /\ Cardinality(ActiveVaults(branch_cspr)) >= 2
  /\ \E k \in CsprKeys : /\ branch_cspr.vaults[k].last_accrual_timestamp > 0
                         /\ branch_cspr.vaults[k].debt > MinDebtCspr
  /\ branch_cspr.total_debt > 0

\* C5 witness: an adjust_vault of BranchCspr accrued interest and left the vault with debt
C5_Witness ==
  /\ last.contract = "branch_cspr" /\ last.op = "adjust_vault"
  /\ branch_cspr.vaults[last.key].last_accrual_timestamp > 0
  /\ branch_cspr.vaults[last.key].debt > MinDebtCspr
  /\ VaultIcr(branch_cspr, last.key) < U32_MAX

\* what C6 says of BranchCspr.open_vault in the current state
OpenOutcomeAsClaimed(b, t) ==
  \A o \in Owners, c \in CollAmounts, d \in DebtAmounts, r \in Rates :
    b.next_vault_id[o] <= MaxVaultId =>
      LET res == open_vault(b, o, c, d, r, t)
          rate_ok == r >= 0 /\ r <= 4000
          debt_ok == d = 0 \/ d >= MinDebtCspr
          icr_ok == calculate_icr(get_collateral_value(b, c), d) >= MCR_BPS
      IN /\ res.err = "Ok" <=> (rate_ok /\ debt_ok /\ icr_ok)
         /\ res.err # "Ok" =>
              /\ res.st = b
              /\ \/ res.err = "InterestRateOutOfBounds" /\ ~rate_ok
                 \/ res.err = "BelowMinDebt" /\ ~debt_ok
                 \/ res.err = "BelowMcr" /\ ~icr_ok

\* what C6 says of BranchCspr.adjust_vault in the current state
AdjustOutcomeAsClaimed(b, t) ==
  \A k \in CsprKeys, cw \in BOOLEAN, dr \in BOOLEAN :
    \A c \in CollAmounts \cup {b.vaults[k].collateral},
       d \in DebtAmounts \cup {accrued_debt(b.vaults[k], t)} :
      LET v == b.vaults[k]
          debt_now == accrued_debt(v, t)
          new_collateral == IF cw THEN v.collateral - c ELSE v.collateral + c
          new_debt == IF dr THEN debt_now - d ELSE debt_now + d
          res == adjust_vault(b, k[1], k[2], c, cw, d, dr, t)
          debt_ok == new_debt = 0 \/ new_debt >= MinDebtCspr
          icr_ok == calculate_icr(get_collateral_value(b, new_collateral), new_debt) >= MCR_BPS
      IN (/\ v.some /\ ~is_empty(v)
          /\ cw => c <= v.collateral
          /\ dr => d <= debt_now)
         => /\ res.err = "Ok" <=> (debt_ok /\ icr_ok)
            /\ res.err # "Ok" =>
                 /\ res.st = b
                 /\ \/ res.err = "BelowMinDebt" /\ ~debt_ok
                    \/ res.err = "BelowMcr" /\ ~icr_ok

\* C6: open_vault returns exactly when the rate is within [0, 4000], the requested debt
\* is zero or at least MIN_DEBT and the ICR is at least MCR_BPS; adjust_vault on an
\* existing vault with deltas within its balances returns exactly when the resulting
\* debt is zero or at least MIN_DEBT and the resulting ICR at least MCR_BPS; a call
\* that does not return fails with the error of a condition it breaks, changing nothing
C6_OpenAdjustOutcome ==
  /\ OpenOutcomeAsClaimed(branch_cspr, now)
  /\ AdjustOutcomeAsClaimed(branch_cspr, now)

-----------------------------------------------------------------------------
(* Properties of safe mode.                                                 *)

\* a safe-mode flag that goes from active to inactive does so in clear_safe_mode of
\* the contract that holds it
ClearedOnlyByClear(contract, before, after) ==
  (before.is_active /\ ~after.is_active)
    => last' = LastCall(contract, "clear_safe_mode", NoKey)

\* C7: a SafeModeState that is active stays active over every committed call (price
\* and exchange-rate updates and repeated triggers included) except clear_safe_mode
\* of the contract that holds it
C7_SafeModeLatch ==
  [][/\ ClearedOnlyByClear("router", router.safe_mode, router'.safe_mode)
     /\ ClearedOnlyByClear("branch_scspr", branch_scspr.safe_mode, branch_scspr'.safe_mode)
     /\ ClearedOnlyByClear("stability_pool", stability_pool.safe_mode,
                           stability_pool'.safe_mode)
     /\ ClearedOnlyByClear("liquidation_engine", liquidation_engine.safe_mode,
                           liquidation_engine'.safe_mode)
     /\ ClearedOnlyByClear("redemption_engine", redemption_engine.safe_mode,
                           redemption_engine'.safe_mode)]_vars

\* the router's safe mode is still active after the oracle accepted a price and left
\* its degraded state
C7_Witness ==
  /\ router.safe_mode.is_active
  /\ last = LastCall("oracle", "update_cspr_price", NoKey)
  /\ oracle.cached_cspr_price.status = "Ok"
  /\ ~oracle.is_degraded

\* safe mode has been triggered in some contract and not cleared since
SafeModeTriggered ==
  \/ router.safe_mode.is_active
  \/ branch_scspr.safe_mode.is_active
  \/ stability_pool.safe_mode.is_active
  \/ liquidation_engine.safe_mode.is_active
  \/ redemption_engine.safe_mode.is_active

\* every call that opens a vault, borrows or withdraws collateral is rejected
RouterRiskyRejected ==
  /\ \A o \in Owners, c \in CollAmounts, d \in DebtAmounts, r \in Rates :
       router_open_vault(router, branch_cspr, stablecoin, o, c, d, r, now).err
         = "SafeModeActive"
  /\ \A k \in CsprKeys, c \in CollAmounts, d \in DebtAmounts,
        cw \in BOOLEAN, dr \in BOOLEAN :
       ((cw /\ c > 0) \/ (~dr /\ d > 0)) =>
         router_adjust_vault(router, branch_cspr, stablecoin, k[1], k[2],
                             c, cw, d, dr, now).err = "SafeModeActive"

\* every liquidation and redemption is rejected
EnginesRejected ==
  /\ \A o \in Owners :
       liquidate(liquidation_engine, branch_scspr, oracle, stability_pool, o, now).err
         = "SafeModeActive"
  /\ \A o1 \in Owners, o2 \in Owners :
       batch_liquidate(liquidation_engine, branch_scspr, oracle, stability_pool,
                       <<o1, o2>>, 2, now).err = "SafeModeActive"
  /\ \A o \in Owners, a \in RedeemAmounts, p \in Prices :
       redeem(redemption_engine, branch_scspr, stablecoin, o, a,
              MAX_REDEMPTION_FEE_BPS, 0, p).err = "SafeModeActive"

\* every withdrawal from the stability pool and every claim of gains is rejected
PoolExitsRejected ==
  \A o \in Owners :
    /\ \A a \in DepositAmounts : withdraw(stability_pool, o, a).err = "SafeModeActive"
    /\ claim_gains(stability_pool, o).err = "SafeModeActive"

\* C8: once safe mode is triggered and until it is cleared, every open, every adjust
\* that borrows or withdraws collateral, every liquidate and batch_liquidate, every
\* redeem and every stability-pool withdraw and claim is rejected with SafeModeActive
C8_SafeModeProtocolWide ==
  SafeModeTriggered => (RouterRiskyRejected /\ EnginesRejected /\ PoolExitsRejected)

\* Router.adjust_vault that adds c collateral to vault k and repays d, in this state
SafeAdjust(rt, k, c, d) ==
  router_adjust_vault(rt, branch_cspr, stablecoin, k[1], k[2], c, FALSE, d, TRUE, now)

\* the vault exists and the repayment is not above its debt
AdjustInputsValid(k, d) ==
  /\ branch_cspr.vaults[k].some /\ ~is_empty(branch_cspr.vaults[k])
  /\ d <= accrued_debt(branch_cspr.vaults[k], now)

\* the adjustment leaves a debt of zero or at least MIN_DEBT and an ICR of at least
\* MCR_BPS, and the owner's balance and allowance to the router cover the repayment
AdjustResultValid(k, c, d) ==
  LET v == branch_cspr.vaults[k]
      new_debt == accrued_debt(v, now) - d
  IN /\ new_debt = 0 \/ new_debt >= MinDebtCspr
     /\ calculate_icr(get_collateral_value(branch_cspr, v.collateral + c), new_debt)
          >= MCR_BPS
     /\ stablecoin.balances[k[1]] >= d
     /\ stablecoin.allowances[<<k[1], "router">>] >= d

\* amounts a caller may pass to an adjust of vault k
RepayAmounts(k) == DebtAmounts \cup {accrued_debt(branch_cspr.vaults[k], now)}

OracleFailureDetected ==
  /\ last.contract = "oracle"
  /\ last.op \in {"update_cspr_price", "update_exchange_rate", "refresh_price"}
  /\ oracle.is_degraded

\* C10: after the oracle adapter detects a failure, safe mode is active with that
\* failure as its reason and risky calls are rejected as in safe mode
C10_OracleFailureTriggersSafeMode ==
  OracleFailureDetected =>
    /\ router.safe_mode.is_active
    /\ router.safe_mode.reason = oracle.cached_cspr_price.status
    /\ RouterRiskyRejected

-----------------------------------------------------------------------------
(* Properties of liquidation.                                               *)

\* LiquidationEngine.liquidate of owner o's vault in the current state
LiquidateNow(o) ==
  liquidate(liquidation_engine, branch_scspr, oracle, stability_pool, o, now)

\* what C11 says of a liquidate of owner o's vault: a call that does not return leaves
\* the branch, the pool and the statistics as they were; a call that returns has
\* seized collateral exactly when it reduced debt, and the pool has absorbed the
\* debt the vault was relieved of
LiquidationAllOrNothing(o) ==
  LET res == LiquidateNow(o)
      before == branch_scspr.vaults[<<o>>]
      after == res.st.branch_scspr.vaults[<<o>>]
      seized == before.collateral - after.collateral
      reduced == before.debt - after.debt
      absorbed == res.st.stability_pool.total_debt_absorbed
                    - stability_pool.total_debt_absorbed
  IN /\ res.err # "Ok" =>
          res.st = LiquidationCall(liquidation_engine, branch_scspr, stability_pool)
     /\ res.err = "Ok" =>
          /\ seized > 0 <=> reduced > 0
          /\ absorbed = reduced

Undercollateralised(o) ==
  /\ scspr_has_vault(branch_scspr, <<o>>)
  /\ branch_scspr.vaults[<<o>>].debt > 0
  /\ ScsprVaultIcr(branch_scspr, <<o>>) < MCR_BPS

\* what C12 says of such a vault: it is liquidatable, liquidate returns and leaves it
\* closed, and a second liquidate does not find it
LiquidationCloses(o) ==
  LET res == LiquidateNow(o)
      b2 == res.st.branch_scspr
      again == liquidate(res.st.liquidation_engine, b2, oracle,
                         res.st.stability_pool, o, now)
  IN /\ is_liquidatable(branch_scspr, oracle, o, now)
     /\ res.err = "Ok"
     /\ b2.vaults[<<o>>].collateral = 0 /\ b2.vaults[<<o>>].debt = 0
     /\ ~b2.sorted_vaults[<<o>>].some
     /\ b2.vault_count = branch_scspr.vault_count - 1
     /\ again.err = "VaultNotFound"

\* C12: with the engine's safe mode inactive, a vault whose ICR is below MCR_BPS is
\* liquidatable, liquidate closes it (zero collateral, zero debt, out of the sorted
\* list and of vault_count) and a second liquidate fails with VaultNotFound
C12_LiquidationClosesVault ==
  \A o \in Owners :
    (~liquidation_engine.safe_mode.is_active /\ Undercollateralised(o))
      => LiquidationCloses(o)

-----------------------------------------------------------------------------
(* Runs of the stability pool alone: deposits, withdrawals, claims and      *)
(* offsets (offset has no caller check).                                    *)

\* amounts deposited (0 is below MIN_DEPOSIT; 1003 is above SCALE)
PoolDeposits == {0, 3, 500, 1003}
\* debts offset: a part of the pool, most of it (P changes scale), all but one unit
\* of a pool of 1003 (P rounds to 0), all of it
PoolOffsetDebts == {1, 100, 400, 950, 1000, 1002}
\* collateral added by an offset
PoolOffsetGains == {0, 1, 11}
\* the collateral of an offset
CollateralIds == {"Cspr", "SCSPR"}

\* a call of such a run returns and is committed
PoolCalled(op, err, key) ==
  /\ ncalls < MaxPoolCalls
  /\ err = "Ok"
  /\ ncalls' = ncalls + 1
  /\ last' = LastCall("stability_pool", op, key)
  /\ UNCHANGED <<now, router, branch_cspr, branch_scspr, oracle, liquidation_engine,
                 redemption_engine, stablecoin>>

\* StabilityPool.deposit, called by depositor o
PoolDeposit ==
  \E o \in Owners, a \in PoolDeposits :
    LET res == deposit(stability_pool, o, a)
    IN /\ stability_pool' = res.st
       /\ PoolCalled("deposit", res.err, <<o>>)

\* StabilityPool.withdraw, called by depositor o, of an amount or of the whole deposit
PoolWithdraw ==
  \E o \in Owners :
    \E a \in PoolDeposits \cup {get_compounded_deposit(stability_pool, o)} :
      LET res == withdraw(stability_pool, o, a)
      IN /\ stability_pool' = res.st
         /\ PoolCalled("withdraw", res.err, <<o>>)

\* StabilityPool.claim_gains, called by depositor o
PoolClaimGains ==
  \E o \in Owners :
    LET res == claim_gains(stability_pool, o)
    IN /\ stability_pool' = res.st
       /\ PoolCalled("claim_gains", res.err, <<o>>)

\* StabilityPool.offset
PoolOffset ==
  \E c \in CollateralIds, d \in PoolOffsetDebts, g \in PoolOffsetGains :
    LET res == offset(stability_pool, c, d, g)
    IN /\ stability_pool' = res.st
       /\ PoolCalled("offset", res.err, NoKey)

NextPool ==
  \/ PoolDeposit
  \/ PoolWithdraw
  \/ PoolClaimGains
  \/ PoolOffset

SpecPool == Init /\ [][NextPool]_vars

-----------------------------------------------------------------------------
(* Properties of the stability pool.                                        *)

\* an offset of debt d that is a part of the pool and changes neither scale nor epoch
OffsetInPlace(sp, d) ==
  /\ 0 < d /\ d < sp.total_deposits
  /\ (sp.ps_state.p * (sp.total_deposits - d)) \div sp.total_deposits
       >= SCALE \div SCALE_FACTOR

\* depositors whose snapshot was taken at the current P and sums
FreshDepositors(sp) ==
  {o \in Owners :
     /\ sp.deposits[o].deposit > 0
     /\ sp.deposits[o].p = sp.ps_state.p
     /\ sp.deposits[o].epoch = sp.ps_state.epoch
     /\ sp.deposits[o].scale = sp.ps_state.scale
     /\ sp.deposits[o].s_cspr = sp.ps_state.s_cspr
     /\ sp.deposits[o].s_scspr = sp.ps_state.s_scspr}

\* the pending gain of depositor o in collateral c
GainOf(sp, o, c) ==
  IF c = "Cspr" THEN get_depositor_gains(sp, o).cspr_gain
  ELSE get_depositor_gains(sp, o).scspr_gain

\* P and total_deposits after offset(c, d, g) are P*(T-d)/T rounded down and T-d
OffsetProduct(sp, c, d, g) ==
  LET T == sp.total_deposits
      after == offset(sp, c, d, g).st
  IN /\ after.ps_state.p = (sp.ps_state.p * (T - d)) \div T
     /\ after.total_deposits = T - d

\* C13 as stated: after such an offset every depositor with deposit x has compounded
\* deposit x*(T-d)/T and a gain in that collateral of x*g/T, each rounded down
OffsetSharesExact(sp, c, d, g) ==
  LET T == sp.total_deposits
      after == offset(sp, c, d, g).st
  IN \A o \in FreshDepositors(sp) :
       LET x == sp.deposits[o].deposit
       IN /\ get_compounded_deposit(after, o) = (x * (T - d)) \div T
          /\ GainOf(after, o, c) = (x * g) \div T

\* C13 (amended): the compounded deposit is x*P'/P and the gain x*(g*P/T)/P, each
\* factor rounded down when it is computed; they are at most x*(T-d)/T and x*g/T
\* rounded down and fall short of them by at most 1 + x/P
OffsetSharesRounded(sp, c, d, g) ==
  LET T == sp.total_deposits
      P == sp.ps_state.p
      after == offset(sp, c, d, g).st
  IN \A o \in FreshDepositors(sp) :
       LET x == sp.deposits[o].deposit
           compounded == get_compounded_deposit(after, o)
           gain == GainOf(after, o, c)
       IN /\ compounded = (x * ((P * (T - d)) \div T)) \div P
          /\ gain = (x * ((g * P) \div T)) \div P
          /\ compounded <= (x * (T - d)) \div T
          /\ compounded >= ((x * (T - d)) \div T) - 1 - (x \div P)
          /\ gain <= (x * g) \div T
          /\ gain >= ((x * g) \div T) - 1 - (x \div P)

\* C13 (amended): for every offset of a part of the pool that changes neither scale nor
\* epoch, P becomes P*(T-d)/T rounded down, total_deposits T-d, and every depositor
\* whose snapshot was taken at the current P has the shares of OffsetSharesRounded
C13_OffsetShares ==
  \A c \in CollateralIds, d \in PoolOffsetDebts, g \in PoolOffsetGains :
    OffsetInPlace(stability_pool, d) =>
      /\ OffsetProduct(stability_pool, c, d, g)
      /\ OffsetSharesRounded(stability_pool, c, d, g)

\* the pool of 1000 after offset(100, 11): P is 0.9, a depositor of 500 has 450 and a
\* gain of 5
C13_Witness ==
  /\ last = LastCall("stability_pool", "offset", NoKey)
  /\ stability_pool.total_deposits = 900
  /\ stability_pool.ps_state.p = (SCALE * 900) \div 1000
  /\ \E o \in Owners :
       /\ stability_pool.deposits[o].deposit = 500
       /\ stability_pool.deposits[o].p = SCALE
       /\ get_compounded_deposit(stability_pool, o) = 450
       /\ GainOf(stability_pool, o, "SCSPR") = 5

\* C13: for every offset of a part of the pool that changes neither scale nor epoch, P
\* becomes P*(T-d)/T, total_deposits T-d, and every depositor with deposit x has
\* compounded deposit x*(T-d)/T and a gain increased by x*g/T, each rounded down
C13_OffsetSharesExact ==
  \A c \in CollateralIds, d \in PoolOffsetDebts, g \in PoolOffsetGains :
    OffsetInPlace(stability_pool, d) =>
      /\ OffsetProduct(stability_pool, c, d, g)
      /\ OffsetSharesExact(stability_pool, c, d, g)

\* deposit(d) followed at once by withdraw(d) of the same depositor
DepositThenWithdraw(sp, o, d) == withdraw(deposit(sp, o, d).st, o, d)

\* both calls succeed, the totals are those before the deposit and nothing is left
RoundTripRestores(sp, o, d) ==
  LET back == DepositThenWithdraw(sp, o, d)
  IN /\ deposit(sp, o, d).err = "Ok"
     /\ get_compounded_deposit(deposit(sp, o, d).st, o) = d
     /\ back.err = "Ok"
     /\ back.st.total_deposits = sp.total_deposits
     /\ back.st.depositor_count = sp.depositor_count
     /\ get_compounded_deposit(back.st, o) = 0
     /\ back.st.ps_state = sp.ps_state

\* C14: for a depositor without a deposit and with safe mode inactive, deposit(d) and
\* then withdraw(d) return total_deposits and depositor_count to their values before
\* the deposit and leave a compounded deposit of 0, whatever P, epoch and scale are
C14_DepositWithdrawRoundTrip ==
  \A o \in Owners, d \in PoolDeposits :
    (/\ ~stability_pool.safe_mode.is_active
     /\ stability_pool.deposits[o].deposit = 0
     /\ d >= MIN_DEPOSIT)
      => RoundTripRestores(stability_pool, o, d)

\* a second depositor has just made a first deposit of 500 after an offset lowered P,
\* and withdrawing the 500 leaves one depositor and nothing for this one
C14_Witness ==
  /\ last.contract = "stability_pool" /\ last.op = "deposit"
  /\ stability_pool.ps_state.p < SCALE
  /\ stability_pool.total_debt_absorbed > 0
  /\ stability_pool.depositor_count = 2
  /\ stability_pool.deposits[last.key[1]].deposit = 500
  /\ stability_pool.deposits[last.key[1]].p = stability_pool.ps_state.p
  /\ withdraw(stability_pool, last.key[1], 500).err = "Ok"
  /\ withdraw(stability_pool, last.key[1], 500).st.depositor_count = 1
  /\ withdraw(stability_pool, last.key[1], 500).st.total_deposits = stability_pool.total_deposits - 500
  /\ get_compounded_deposit(withdraw(stability_pool, last.key[1], 500).st, last.key[1]) = 0

-----------------------------------------------------------------------------
(* Redemptions: a redeemer borrows gUSD through the router, approves the    *)
(* redemption engine and redeems against the vaults of BranchScspr.         *)

\* iteration caps a redeemer passes (0 stands for the default of 10)
IterationCaps == {0, 1}
\* amounts a redeemer passes: below MIN_REDEMPTION, half the debt of a vault, all of it
RedemptionAmounts == {500, 1000, 2000}

RedeemCalled(contract, op, err, key) ==
  /\ ncalls < MaxRedeemCalls
  /\ err = "Ok"
  /\ ncalls' = ncalls + 1
  /\ last' = LastCall(contract, op, key)

\* Router.open_vault with 3 collateral and MIN_DEBT: the owner receives the gUSD
RedeemBorrow ==
  \E o \in Owners :
    /\ branch_cspr.next_vault_id[o] <= MaxVaultId
    /\ LET res == router_open_vault(router, branch_cspr, stablecoin, o, 3, MinDebtCspr, 0, now)
       IN /\ branch_cspr' = res.st.branch_cspr
          /\ stablecoin' = res.st.stablecoin
          /\ RedeemCalled("router", "open_vault", res.err, <<o, branch_cspr.next_vault_id[o]>>)
    /\ UNCHANGED <<now, router, branch_scspr, oracle, liquidation_engine,
                   stability_pool, redemption_engine>>

\* CsprUsd.approve of the redemption engine for the owner's balance
RedeemApprove ==
  \E o \in Owners :
    /\ stablecoin.balances[o] > 0
    /\ LET res == approve(stablecoin, o, "redemption_engine", stablecoin.balances[o])
       IN /\ stablecoin' = res.st
          /\ RedeemCalled("stablecoin", "approve", res.err, NoKey)
    /\ UNCHANGED <<now, router, branch_cspr, branch_scspr, oracle, liquidation_engine,
                   stability_pool, redemption_engine>>

\* BranchScspr.open_vault, called by owner o
RedeemOpenVault ==
  \E o \in Owners, c \in ScsprCollAmounts, d \in ScsprDebtAmounts, r \in Rates :
    /\ LET res == scspr_open_vault(branch_scspr, o, c, d, r, now)
       IN /\ branch_scspr' = res.st
          /\ RedeemCalled("branch_scspr", "open_vault", res.err, <<o>>)
    /\ UNCHANGED <<now, router, branch_cspr, oracle, liquidation_engine,
                   stability_pool, redemption_engine, stablecoin>>

\* BranchScspr.seize_collateral
RedeemSeizeCollateral ==
  \E o \in Owners, c \in ScsprCollAmounts :
    /\ LET res == scspr_seize_collateral(branch_scspr, o, c)
       IN /\ branch_scspr' = res.st
          /\ RedeemCalled("branch_scspr", "seize_collateral", res.err, <<o>>)
    /\ UNCHANGED <<now, router, branch_cspr, oracle, liquidation_engine,
                   stability_pool, redemption_engine, stablecoin>>

\* RedemptionEngine.redeem, called by redeemer o
RedeemRedeem ==
  \E o \in Owners, a \in RedemptionAmounts, n \in IterationCaps, p \in Prices :
    /\ LET res == redeem(redemption_engine, branch_scspr, stablecoin, o, a,
                         MAX_REDEMPTION_FEE_BPS, n, p)
       IN /\ redemption_engine' = res.st.redemption_engine
          /\ branch_scspr' = res.st.branch_scspr
          /\ stablecoin' = res.st.stablecoin
          /\ RedeemCalled("redemption_engine", "redeem", res.err, <<o>>)
    /\ UNCHANGED <<now, router, branch_cspr, oracle, liquidation_engine, stability_pool>>

NextRedeem ==
  \/ RedeemBorrow
  \/ RedeemApprove
  \/ RedeemOpenVault
  \/ RedeemSeizeCollateral
  \/ RedeemRedeem

SpecRedeem == Init /\ [][NextRedeem]_vars

-----------------------------------------------------------------------------
(* Properties of redemptions.                                               *)

\* redeem(a) by redeemer o with iteration cap n at the oracle price p
RedeemNow(o, a, n, p) == redeem(redemption_engine, branch_scspr, stablecoin, o, a, MAX_REDEMPTION_FEE_BPS, n, p)

\* the owners process_redemption examines, in its order
ExaminedOwners(b, n) == get_sorted_vault_owners(b, IF n = 0 THEN 10 ELSE n)

\* the debt a redemption took from the vault of key k
DebtTaken(b, after, k) == b.vaults[k].debt - after.vaults[k].debt

\* the vaults a redemption took debt from follow each other at ascending rates
TakenAscending(b, after, n) ==
  LET owners == ExaminedOwners(b, n)
  IN \A i \in DOMAIN owners, j \in DOMAIN owners :
       (i < j /\ DebtTaken(b, after, owners[i]) > 0 /\ DebtTaken(b, after, owners[j]) > 0)
         => b.vaults[owners[i]].interest_rate_bps <= b.vaults[owners[j]].interest_rate_bps

\* debt is taken from a vault only when every vault before it in the list is left
\* without debt or without collateral
TakenAfterExhausted(b, after, n) ==
  LET owners == ExaminedOwners(b, n)
  IN \A i \in DOMAIN owners, j \in DOMAIN owners :
       (i < j /\ DebtTaken(b, after, owners[j]) > 0)
         => \/ after.vaults[owners[i]].debt = 0
            \/ after.vaults[owners[i]].collateral = 0

\* no vault loses more than its debt or than the amount redeemed, all together lose
\* no more than the amount redeemed, and no vault gains debt
TakenBounded(b, after, a) ==
  /\ \A k \in ScsprKeys :
       /\ DebtTaken(b, after, k) >= 0
       /\ DebtTaken(b, after, k) <= min(b.vaults[k].debt, a)
  /\ SumOver(ScsprKeys, [k \in ScsprKeys |-> DebtTaken(b, after, k)]) <= a

\* at most the iteration cap of vaults is examined, the others are left as they are
ExaminedCapped(b, after, n) ==
  /\ Len(ExaminedOwners(b, n)) <= (IF n = 0 THEN 10 ELSE n)
  /\ \A k \in ScsprKeys \ Range(ExaminedOwners(b, n)) : after.vaults[k] = b.vaults[k]

\* C15: a successful redeem takes debt from vaults in ascending interest-rate order,
\* from a vault only if every vault before it in the sorted list is left with zero debt
\* or zero collateral, from each vault at most min(its debt, the amount), and examines
\* no more vaults than the iteration cap
C15_RedemptionOrder ==
  \A o \in Owners, a \in RedemptionAmounts, n \in IterationCaps, p \in Prices :
    LET res == RedeemNow(o, a, n, p)
    IN res.err = "Ok" =>
         /\ TakenAscending(branch_scspr, res.st.branch_scspr, n)
         /\ TakenAfterExhausted(branch_scspr, res.st.branch_scspr, n)
         /\ TakenBounded(branch_scspr, res.st.branch_scspr, a)
         /\ ExaminedCapped(branch_scspr, res.st.branch_scspr, n)

\* the vault of key k is closed: empty, out of the sorted list
ClosedByRedemption(after, k) ==
  /\ is_empty(after.vaults[k])
  /\ ~after.sorted_vaults[k].some
  /\ after.sorted_head # k

\* every vault whose debt the redemption brought to zero is closed and no longer counted
ZeroDebtCloses(b, after) ==
  LET zeroed == {k \in ScsprKeys : b.vaults[k].debt > 0 /\ after.vaults[k].debt = 0}
  IN /\ \A k \in zeroed : ClosedByRedemption(after, k)
     /\ after.vault_count = b.vault_count - Cardinality(zeroed)

\* redeeming a at the branch's own price when the first vault of the list owes no more
\* than a and holds collateral worth its debt: that vault is closed, and the next one,
\* if it owes more than the rest, owes that much less
FirstVaultExhausted(b, after, a) ==
  LET first == b.sorted_head
      D1 == b.vaults[first].debt
      second == b.sorted_vaults[first].next
  IN (/\ first # NoKey
      /\ D1 > 0 /\ D1 <= a
      /\ scspr_get_collateral_value(b, b.vaults[first].collateral) >= D1)
       => /\ ClosedByRedemption(after, first)
          /\ (second # NoKey /\ b.vaults[second].debt > a - D1
                /\ scspr_get_collateral_value(b, b.vaults[second].collateral) >= a - D1)
               => after.vaults[second].debt = b.vaults[second].debt - (a - D1)

\* C16: a vault whose debt a redemption reduces to zero is closed (out of the sorted
\* list and of vault_count) and the redemption goes on with the next vault: redeeming
\* at least the debt of the first vault closes it and takes the rest from the second
C16_RedemptionClosesVault ==
  \A o \in Owners, a \in RedemptionAmounts :
    LET res == RedeemNow(o, a, 0, branch_scspr.last_good_price)
    IN res.err = "Ok" =>
         /\ ZeroDebtCloses(branch_scspr, res.st.branch_scspr)
         /\ FirstVaultExhausted(branch_scspr, res.st.branch_scspr, a)

-----------------------------------------------------------------------------
(* accrue_interest alone: the block time is drawn at the start, a call      *)
(* passes a debt, a rate and the time of the last accrual, and the call     *)
(* with its result is recorded in last.                                     *)

AccrueTimes == 0 .. MaxAccrueTime
AccrueDebts == {0, 1, 800, 1000}
AccrueRates == {0, 500, 2000, MAX_INTEREST_RATE_BPS}

InitAccrue ==
  /\ now \in AccrueTimes
  /\ router = RouterInit
  /\ branch_cspr = BranchCsprInit
  /\ branch_scspr = BranchScsprInit
  /\ oracle = OracleInit
  /\ liquidation_engine = LiquidationEngineInit
  /\ stability_pool = StabilityPoolInit
  /\ redemption_engine = RedemptionEngineInit
  /\ stablecoin = StablecoinInit
  /\ last = LastCall("none", "init", NoKey)
  /\ ncalls = 0

\* accrue_interest(debt, rate, t0, now); the key of last holds the arguments, then the
\* new debt and the interest accrued
AccrueInterest ==
  \E debt \in AccrueDebts, rate \in AccrueRates, t0 \in AccrueTimes :
    /\ LET res == accrue_interest(debt, rate, t0, now)
       IN last' = LastCall("interest", "accrue_interest",
                           <<debt, rate, t0, now, res.new_debt, res.interest_accrued>>)
    /\ UNCHANGED <<now, router, branch_cspr, branch_scspr, oracle, liquidation_engine,
                   stability_pool, redemption_engine, stablecoin, ncalls>>

NextAccrue ==
  \/ AccrueInterest

SpecAccrue == InitAccrue /\ [][NextAccrue]_vars

\* the last call was accrue_interest
Accrued == last.contract = "interest" /\ last.op = "accrue_interest"

\* C17: accrue_interest(debt, rate, last, now) returns (debt, 0) when now <= last, when
\* debt = 0 and when rate = 0
C17_AccrueNoOp ==
  Accrued =>
    LET debt == last.key[1]
        rate == last.key[2]
        t0 == last.key[3]
        t1 == last.key[4]
    IN (t1 <= t0 \/ debt = 0 \/ rate = 0) => (last.key[5] = debt /\ last.key[6] = 0)

\* a call with debt and rate at the time of the last accrual, and one with time elapsed
\* and a zero rate, have returned
C17_Witness ==
  /\ Accrued
  /\ \/ last.key[1] = 1000 /\ last.key[2] = 2000 /\ last.key[3] = last.key[4]
     \/ last.key[1] = 1000 /\ last.key[2] = 0 /\ last.key[3] < last.key[4]
  /\ last.key[5] = 1000
  /\ last.key[6] = 0

-----------------------------------------------------------------------------
(* Properties of interest accrual in a branch.                              *)

\* floor(D * r * (t1 - t0) / (10000 * SECONDS_PER_YEAR))
SimpleInterest(D, r, t0, t1) == (D * r * (t1 - t0)) \div (BPS_SCALE * SECONDS_PER_YEAR)

\* adjust_vault of the vault of key k with zero deltas at the current time
AdjustZeroNow(k) == adjust_vault(branch_cspr, k[1], k[2], 0, FALSE, 0, FALSE, now)

\* the adjust adds the simple interest to the vault's debt and to total_debt, sets the
\* time of the last accrual and leaves the rest of the branch as it is
OnlyInterestAdded(b, after, k, t1) ==
  LET vault == b.vaults[k]
      interest == SimpleInterest(vault.debt, vault.interest_rate_bps,
                                 vault.last_accrual_timestamp, t1)
  IN after = [b EXCEPT !.vaults[k].debt = vault.debt + interest,
                       !.vaults[k].last_accrual_timestamp = t1,
                       !.total_debt = b.total_debt + interest]

\* C18: an adjust_vault with zero deltas that executes at t1 on a vault with debt D, rate
\* r and last accrual t0 < t1 sets the debt to D + floor(D*r*(t1-t0)/(10000*SECONDS_PER_YEAR)),
\* raises total_debt by the same interest, sets last_accrual_timestamp to t1 and changes
\* nothing else; a call that does not execute changes nothing
C18_ZeroAdjustAccrues ==
  \A k \in CsprKeys :
    (branch_cspr.vaults[k].debt > 0 /\ branch_cspr.vaults[k].last_accrual_timestamp < now)
      => /\ AdjustZeroNow(k).err = "Ok"
              => OnlyInterestAdded(branch_cspr, AdjustZeroNow(k).st, k, now)
         /\ AdjustZeroNow(k).err # "Ok" => AdjustZeroNow(k).st = branch_cspr

\* a vault opened with 3 collateral and 1000 debt at 2000 bps was adjusted with zero
\* deltas half a year later: it owes 1100
C18_Witness ==
  /\ last.contract = "branch_cspr" /\ last.op = "adjust_vault"
  /\ ncalls = 2
  /\ now = 1
  /\ branch_cspr.vaults[last.key].collateral = 3
  /\ branch_cspr.vaults[last.key].interest_rate_bps = 2000
  /\ branch_cspr.vaults[last.key].debt = 1000 + SimpleInterest(1000, 2000, 0, 1)
  /\ branch_cspr.vaults[last.key].debt = 1100
  /\ branch_cspr.vaults[last.key].last_accrual_timestamp = 1
  /\ branch_cspr.total_debt = 1100

-----------------------------------------------------------------------------
(* The debt floor.                                                          *)

\* every vault of a branch that owes anything owes at least min_debt
DebtFloor(b, min_debt) ==
  \A k \in DOMAIN b.vaults : b.vaults[k].debt # 0 => b.vaults[k].debt >= min_debt

\* C19: in every reachable state every vault with non-zero debt owes at least the
\* MIN_DEBT of its branch, also after partial redemptions
\* (reduce_collateral_for_redemption) and partial liquidations (reduce_debt)
C19_DebtFloor ==
  /\ DebtFloor(branch_cspr, MinDebtCspr)
  /\ DebtFloor(branch_scspr, MinDebtScspr)

-----------------------------------------------------------------------------
(* The product P across the calls of the stability pool.                    *)

\* only an offset changes P, the sums, the epoch and the scale
OnlyOffsetMovesProduct ==
  stability_pool'.ps_state # stability_pool.ps_state => last'.op = "offset"

\* a step within an epoch and a scale does not raise the stored P
ProductFallsInScale ==
  (/\ stability_pool'.ps_state.epoch = stability_pool.ps_state.epoch
   /\ stability_pool'.ps_state.scale = stability_pool.ps_state.scale)
    => stability_pool'.ps_state.p <= stability_pool.ps_state.p

\* a step within an epoch that changes the scale raises it by one and stores P times
\* SCALE_FACTOR: the stored P is below 1.0 and at most SCALE_FACTOR times the P before
ProductRescaled ==
  (/\ stability_pool'.ps_state.epoch = stability_pool.ps_state.epoch
   /\ stability_pool'.ps_state.scale # stability_pool.ps_state.scale)
    => /\ stability_pool'.ps_state.scale = stability_pool.ps_state.scale + 1
       /\ stability_pool'.ps_state.p < SCALE
       /\ stability_pool'.ps_state.p <= stability_pool.ps_state.p * SCALE_FACTOR
       /\ stability_pool'.ps_state.p \div SCALE_FACTOR <= stability_pool.ps_state.p

\* a step within an epoch does not raise the stored P
ProductFallsInEpoch ==
  stability_pool'.ps_state.epoch = stability_pool.ps_state.epoch
    => stability_pool'.ps_state.p <= stability_pool.ps_state.p

\* C20 (amended): within an epoch and a scale the stored P never rises; an offset that
\* changes the scale stores P times SCALE_FACTOR, which may exceed the P before, with P
\* divided by SCALE_FACTOR per scale still falling; deposits, withdrawals and claims
\* never change P
C20_ProductMonotoneInScale ==
  [][OnlyOffsetMovesProduct /\ ProductFallsInScale /\ ProductRescaled]_vars

\* an offset has changed the scale within the first epoch
C20_Witness ==
  /\ last = LastCall("stability_pool", "offset", NoKey)
  /\ stability_pool.ps_state.epoch = 0
  /\ stability_pool.ps_state.scale = 1
  /\ stability_pool.ps_state.p > SCALE \div 2
  /\ stability_pool.total_deposits > 0

\* C20: within an epoch the stored P after an offset is at most the stored P before it,
\* and deposits, withdrawals and claims never change P
C20_ProductMonotoneInEpoch ==
  [][OnlyOffsetMovesProduct /\ ProductFallsInEpoch]_vars

-----------------------------------------------------------------------------
(* Epochs of the stability pool.                                            *)

\* an offset of at least the whole pool starts the next epoch with P = 1.0, scale 0 and
\* no deposits
DepletionStartsEpoch(sp, c, d, g) ==
  (sp.total_deposits > 0 /\ d >= sp.total_deposits)
    => LET after == offset(sp, c, d, g).st
       IN /\ after.ps_state.epoch = sp.ps_state.epoch + 1
          /\ after.ps_state.scale = 0
          /\ after.ps_state.p = SCALE
          /\ after.total_deposits = 0

\* a depositor whose snapshot is of an epoch before the current one has nothing left
OlderEpochWiped(sp) ==
  \A o \in Owners :
    (sp.deposits[o].deposit > 0 /\ sp.deposits[o].epoch < sp.ps_state.epoch)
      => get_compounded_deposit(sp, o) = 0

\* the epoch changes only by an offset that empties the pool
EpochOnlyByDepletion ==
  stability_pool'.ps_state.epoch # stability_pool.ps_state.epoch
    => /\ last'.op = "offset"
       /\ stability_pool.total_deposits > 0
       /\ stability_pool'.total_deposits = 0
       /\ stability_pool'.ps_state.epoch = stability_pool.ps_state.epoch + 1

\* every offset that consumes the whole pool starts the next epoch
C21_DepletionNow ==
  \A c \in CollateralIds, d \in PoolOffsetDebts, g \in PoolOffsetGains :
    DepletionStartsEpoch(stability_pool, c, d, g)

\* the epoch changes only by an offset that empties the pool
EpochOnlyByOffset == [][EpochOnlyByDepletion]_vars

\* C21: an offset that consumes the whole pool increments epoch by exactly 1, resets
\* scale to 0 and P to 1.0 and leaves total_deposits at 0; from then on every depositor
\* whose snapshot epoch is older than the current epoch has compounded deposit 0
C21_EpochReset ==
  /\ C21_DepletionNow
  /\ OlderEpochWiped(stability_pool)

-----------------------------------------------------------------------------
(* Properties of the oracle adapter.                                        *)

\* prices a feeder may pass: out of bounds, the last price, the largest within 5% of
\* 1000, the smallest beyond, far away
FedPrices == OraclePrices \cup {960, 1050, 1051}
\* timestamps a feeder may pass, one of them in the future
FedTimestamps == 0 .. MaxTime + 1

\* the deviation of price from reference in whole basis points
DeviationBps(price, reference) ==
  ((IF price > reference THEN price - reference ELSE reference - price) * 10000) \div reference

\* the price is within the bounds and the deviation allowed, the timestamp not older
\* than max_price_age_seconds
PriceAcceptable(orc, price, timestamp, t) ==
  /\ price >= orc.config.min_cspr_price
  /\ price <= orc.config.max_cspr_price
  /\ DeviationBps(price, orc.last_good_cspr_price) <= orc.config.max_deviation_bps
  /\ timestamp + orc.config.max_price_age_seconds >= t

\* the effect of an accepted price
PriceAccepted(orc, after, price) ==
  /\ after.cached_cspr_price.price = price
  /\ after.cached_cspr_price.status = "Ok"
  /\ after.last_good_cspr_price = price
  /\ ~after.is_degraded

\* the effect of a rejected price
PriceRejected(orc, after) ==
  /\ after.is_degraded
  /\ after.cached_cspr_price.status \in {"Deviation", "Stale"}
  /\ after.cached_cspr_price.price = orc.cached_cspr_price.price
  /\ after.last_good_cspr_price = orc.last_good_cspr_price
  /\ after = [orc EXCEPT !.is_degraded = TRUE,
                         !.cached_cspr_price.status = after.cached_cspr_price.status]

\* C22: update_cspr_price(price, timestamp) accepts exactly when the price is within
\* the bounds, deviates from the last good price by at most max_deviation_bps and the
\* timestamp is not older than max_price_age_seconds; an accepted price becomes the
\* cached and the last good price with status Ok and clears the degraded flag; a
\* rejected one sets the flag and the cached status and leaves the cached price and
\* the last good price, so that the last good price is the price last accepted
C22_UpdateCsprPrice ==
  /\ \A price \in FedPrices, timestamp \in FedTimestamps :
       LET res == update_cspr_price(oracle, price, timestamp, now)
       IN /\ res.err = "Ok"
          /\ IF PriceAcceptable(oracle, price, timestamp, now)
               THEN PriceAccepted(oracle, res.st, price)
               ELSE PriceRejected(oracle, res.st)
  /\ oracle.cached_cspr_price.price = oracle.last_good_cspr_price
  /\ oracle.last_good_cspr_price \in {PRICE_SCALE} \cup OraclePrices

\* 1040 was accepted and a later price rejected: the oracle is degraded and still
\* holds 1040
C22_Witness ==
  /\ last = LastCall("oracle", "update_cspr_price", NoKey)
  /\ oracle.last_good_cspr_price = 1040
  /\ oracle.cached_cspr_price.price = 1040
  /\ oracle.cached_cspr_price.status \in {"Deviation", "Stale"}
  /\ oracle.is_degraded

\* the worse of the base price's status and the rate's freshness
WorseStatus(orc, t) ==
  IF get_cspr_price(orc, t).status # "Ok" THEN get_cspr_price(orc, t).status
  ELSE IF t - orc.last_rate_update > orc.config.max_price_age_seconds THEN "Stale"
  ELSE "Ok"

\* C23: get_scspr_price returns the older of the base price's timestamp and the rate's
\* timestamp, and the worse of the two statuses: the base price's when it is not Ok,
\* else Stale when the rate is older than max_price_age_seconds, else Ok
C23_ScsprPriceOlderAndWorse ==
  /\ get_scspr_price(oracle, now).timestamp_sec
       = min(get_cspr_price(oracle, now).timestamp_sec, oracle.last_rate_update)
  /\ get_scspr_price(oracle, now).status = WorseStatus(oracle, now)

ScsprStatusIsWorse == get_scspr_price(oracle, now).status = WorseStatus(oracle, now)

-----------------------------------------------------------------------------
(* Accrual before the ledger operations of a vault.                        *)

\* a call that executed and left the vault of key k open accrued first: the vault owes
\* the debt accrued up to t less debt_cut, total_debt moved by the interest less
\* debt_cut, and the time of the last accrual is t
SurvivorAccrued(b, res, k, t, debt_cut) ==
  (res.err = "Ok" /\ ~is_empty(res.st.vaults[k]))
    => /\ res.st.vaults[k].last_accrual_timestamp = t
       /\ res.st.vaults[k].debt = accrued_debt(b.vaults[k], t) - debt_cut
       /\ res.st.total_debt + b.vaults[k].debt = b.total_debt + res.st.vaults[k].debt

\* adjust_vault and adjust_interest_rate accrue before they act
AdjustsAccrue(b, k, t) ==
  /\ SurvivorAccrued(b, adjust_vault(b, k[1], k[2], 0, FALSE, 0, FALSE, t), k, t, 0)
  /\ \A r \in Rates : SurvivorAccrued(b, adjust_interest_rate(b, k[1], k[2], r, t), k, t, 0)

\* seize_collateral, reduce_debt and reduce_collateral_for_redemption accrue before they act
EngineCallsAccrue(b, k, t) ==
  /\ \A c \in CollAmounts \cup {0} :
       SurvivorAccrued(b, seize_collateral(b, k[1], k[2], c), k, t, 0)
  /\ \A d \in DebtAmounts \cup {0} :
       SurvivorAccrued(b, reduce_debt(b, k[1], k[2], d), k, t, d)
  /\ \A c \in CollAmounts \cup {0}, d \in DebtAmounts \cup {0} :
       SurvivorAccrued(b, reduce_collateral_for_redemption(b, k[1], k[2], c, d), k, t, d)

AdjustsAccrueNow == \A k \in CsprKeys : AdjustsAccrue(branch_cspr, k, now)

\* C24: every mutating ledger operation on a vault first accrues interest up to the
\* current time: the balances it works on include the interest, total_debt is raised by
\* it, and a vault that survives the operation has last_accrual_timestamp = now
C24_AccrueBeforeMutation ==
  \A k \in CsprKeys :
    /\ AdjustsAccrue(branch_cspr, k, now)
    /\ EngineCallsAccrue(branch_cspr, k, now)

-----------------------------------------------------------------------------
(* Operations on a vault that is not open.                                 *)

\* the call failed with VaultNotFound and changed nothing
NotFound(res, b) == res.err = "VaultNotFound" /\ res.st = b

\* the vault of the key was never opened, or it was closed
NotOpen(vault) == ~vault.some \/ is_empty(vault)

\* every ledger operation of BranchCspr on the key k fails with VaultNotFound
CsprNotFound(b, k, t) ==
  /\ \A c \in CollAmounts, cw \in BOOLEAN, d \in DebtAmounts, dr \in BOOLEAN :
       NotFound(adjust_vault(b, k[1], k[2], c, cw, d, dr, t), b)
  /\ \A r \in Rates :
       r <= MAX_INTEREST_RATE_BPS => NotFound(adjust_interest_rate(b, k[1], k[2], r, t), b)
  /\ NotFound(close_vault(b, k[1], k[2]), b)
  /\ \A c \in CollAmounts : NotFound(seize_collateral(b, k[1], k[2], c), b)
  /\ \A d \in DebtAmounts : NotFound(reduce_debt(b, k[1], k[2], d), b)
  /\ \A c \in CollAmounts, d \in DebtAmounts :
       NotFound(reduce_collateral_for_redemption(b, k[1], k[2], c, d), b)
  /\ NotFound(close_vault_for_liquidation(b, k[1], k[2]), b)

\* every ledger operation of BranchScspr on the vault of owner o fails with VaultNotFound
ScsprNotFound(b, o, t) ==
  /\ \A c \in ScsprCollAmounts, cw \in BOOLEAN, d \in ScsprDebtAmounts, dr \in BOOLEAN :
       NotFound(scspr_adjust_vault(b, o, c, cw, d, dr, t), b)
  /\ NotFound(scspr_close_vault(b, o), b)
  /\ \A c \in ScsprCollAmounts : NotFound(scspr_seize_collateral(b, o, c), b)
  /\ \A d \in ScsprDebtAmounts : NotFound(scspr_reduce_debt(b, o, d), b)
  /\ \A c \in ScsprCollAmounts, d \in ScsprDebtAmounts :
       NotFound(scspr_reduce_collateral_for_redemption(b, o, c, d), b)
  /\ NotFound(scspr_close_vault_for_liquidation(b, o), b)

CsprNotFoundNow ==
  \A k \in CsprKeys : NotOpen(branch_cspr.vaults[k]) => CsprNotFound(branch_cspr, k, now)

\* C25: in both branches adjust, close, seize_collateral, reduce_debt,
\* reduce_for_redemption and close_for_liquidation (and adjust_rate in BranchCspr) on a
\* vault that was never opened or that was closed fail with VaultNotFound and change no
\* state (BranchScspr taken outside safe mode, where close_vault reaches the lookup)
C25_NotOpenVaultNotFound ==
  /\ CsprNotFoundNow
  /\ \A o \in Owners :
       (NotOpen(branch_scspr.vaults[<<o>>]) /\ ~branch_scspr.safe_mode.is_active)
         => ScsprNotFound(branch_scspr, o, now)

-----------------------------------------------------------------------------
(* The frame of adjust_interest_rate.                                      *)

\* the keys of the sorted list of BranchCspr, head first
ListOf(b) == get_sorted_vault_owners(b, Cardinality(CsprKeys))

\* the list L without the key k
Without(L, k) == SelectSeq(L, LAMBDA x : x # k)

\* the place of the rate r in the list L of the branch b: before the first entry whose
\* rate is not below r, after the last entry when there is none
PlaceFor(b, L, r) ==
  LET notBelow == {i \in 1 .. Len(L) : b.sorted_vaults[L[i]].interest_rate_bps >= r}
  IN IF notBelow = {} THEN Len(L) + 1
     ELSE CHOOSE i \in notBelow : \A j \in notBelow : i <= j

\* the list L with the key k put at the place of the rate r
Placed(b, L, k, r) ==
  SubSeq(L, 1, PlaceFor(b, L, r) - 1) \o <<k>> \o SubSeq(L, PlaceFor(b, L, r), Len(L))

\* the sorted list after the call: as it was when the rate is the vault's rate, else
\* with the entry of k moved to the place of the new rate
RateRelinked(b, after, k, r) ==
  IF r = b.vaults[k].interest_rate_bps
    THEN /\ after.sorted_vaults = b.sorted_vaults
         /\ after.sorted_head = b.sorted_head
         /\ after.sorted_tail = b.sorted_tail
    ELSE /\ ListOf(after) = Placed(b, Without(ListOf(b), k), k, r)
         /\ after.sorted_vaults[k].interest_rate_bps = r
         /\ after.sorted_head = Head(ListOf(after))
         /\ after.sorted_tail = ListOf(after)[Len(ListOf(after))]

\* the call accrued at the old rate up to t, set the rate, and left the collateral, the
\* totals of the collateral and of the vaults, and the other vaults as they were
RateFrame(b, after, k, r, t) ==
  /\ after.vaults[k] = [b.vaults[k] EXCEPT !.debt = accrued_debt(b.vaults[k], t),
                                           !.last_accrual_timestamp = t,
                                           !.interest_rate_bps = r]
  /\ after.total_debt = b.total_debt + accrued_debt(b.vaults[k], t) - b.vaults[k].debt
  /\ after.total_collateral = b.total_collateral
  /\ after.vault_count = b.vault_count
  /\ \A other \in CsprKeys \ {k} : after.vaults[other] = b.vaults[other]

\* C26: adjust_interest_rate(new_rate) rejects new_rate > 4000 with
\* InterestRateOutOfBounds; otherwise it accrues at the vault's old rate up to now and
\* then leaves the sorted list (order, links, head, tail) unchanged when new_rate is the
\* current rate, else moves the vault's entry to the place of new_rate; the vault's
\* collateral, total_collateral, vault_count and the other vaults are unchanged
C26_AdjustRateFrame ==
  \A k \in CsprKeys, r \in Rates :
    LET res == adjust_interest_rate(branch_cspr, k[1], k[2], r, now)
    IN /\ r > 4000 => (res.err = "InterestRateOutOfBounds" /\ res.st = branch_cspr)
       /\ res.err = "Ok" => /\ RateFrame(branch_cspr, res.st, k, r, now)
                            /\ RateRelinked(branch_cspr, res.st, k, r)
       /\ (r <= 4000 /\ ~NotOpen(branch_cspr.vaults[k])) => res.err = "Ok"

\* the rate of the first of two vaults opened at rate 0 was set to 2000 bps: its entry
\* moved from the head of the sorted list to the tail
C26_Witness ==
  /\ last.contract = "branch_cspr" /\ last.op = "adjust_interest_rate"
  /\ Len(ListOf(branch_cspr)) = 2
  /\ branch_cspr.sorted_tail = last.key
  /\ branch_cspr.vaults[last.key].interest_rate_bps = 2000
  /\ branch_cspr.sorted_vaults[branch_cspr.sorted_head].interest_rate_bps = 0

-----------------------------------------------------------------------------
(* Vaults of equal rate in the sorted list.                                *)

\* the place of the key k in the list L, 0 when L does not hold it
PlaceOf(L, k) == IF \E i \in 1 .. Len(L) : L[i] = k
                   THEN CHOOSE i \in 1 .. Len(L) : L[i] = k
                   ELSE 0

\* the step inserted the key k into the sorted list: it opened the vault, or it gave
\* the vault another rate
Inserted(k) ==
  /\ last'.contract = "branch_cspr" /\ last'.key = k
  /\ last'.op \in {"open_vault", "adjust_interest_rate"}
  /\ PlaceOf(ListOf(branch_cspr'), k) > 0
  /\ \/ PlaceOf(ListOf(branch_cspr), k) = 0
     \/ branch_cspr'.sorted_vaults[k].interest_rate_bps
          # branch_cspr.sorted_vaults[k].interest_rate_bps

\* the entries that were in the list before the step and have the rate of k after it
TiesOf(k) ==
  {e \in CsprKeys \ {k} :
     /\ PlaceOf(ListOf(branch_cspr), e) > 0
     /\ PlaceOf(ListOf(branch_cspr'), e) > 0
     /\ branch_cspr'.sorted_vaults[e].interest_rate_bps
          = branch_cspr'.sorted_vaults[k].interest_rate_bps}

\* the inserted key goes behind the entries of its rate that arrived before it
InsertedBehindTies ==
  \A k \in CsprKeys :
    Inserted(k) => \A e \in TiesOf(k) :
                     PlaceOf(ListOf(branch_cspr'), e) < PlaceOf(ListOf(branch_cspr'), k)

\* the inserted key goes in front of the entries of its rate that arrived before it,
\* and the other entries keep their order
InsertedBeforeTies ==
  \A k \in CsprKeys :
    Inserted(k) => /\ \A e \in TiesOf(k) :
                        PlaceOf(ListOf(branch_cspr'), k) < PlaceOf(ListOf(branch_cspr'), e)
                   /\ Without(ListOf(branch_cspr'), k) = Without(ListOf(branch_cspr), k)

\* C27: among vaults of equal rate the sorted list holds the vault inserted (opened or
\* re-rated) later in front of the vault inserted earlier, head to tail: redemption
\* reaches the vaults of one rate in the reverse of the order they arrived in
C27_TiesNewestFirst == [][InsertedBeforeTies]_vars

\* owner 1 opened a second vault at the rate of the first: the second is the head of
\* the list and the first comes after it
C27_Witness ==
  /\ last = LastCall("branch_cspr", "open_vault", <<1, 2>>)
  /\ ListOf(branch_cspr) = << <<1, 2>>, <<1, 1>> >>
  /\ branch_cspr.sorted_vaults[<<1, 2>>].interest_rate_bps
       = branch_cspr.sorted_vaults[<<1, 1>>].interest_rate_bps

\* among vaults of equal rate the head-to-tail order is the order of arrival
C27_TiesArrivalOrder == [][InsertedBehindTies]_vars

-----------------------------------------------------------------------------
(* The amounts of a liquidation.  The admin sets the penalty; a vault of   *)
(* one owner with a collateral and a debt is liquidated at a price: the    *)
(* amounts are computed and applied to a branch that holds the vault, and *)
(* last records the call.                                                  *)

LiqPenalties == {0, 500, 1000, 5000, 5001}
LiqCollaterals == {0, 1, 5, 100, 105, 200}
LiqDebts == {0, 1, 100, 200}
LiqPrices == {1, 500, 1000, 1040}

\* BranchScspr with the vault of owner 1 alone in it
BranchWithVault(collateral, debt) ==
  [BranchScsprInit EXCEPT !.vaults[<<1>>] = VaultData(collateral, debt, 0, 0),
                          !.sorted_vaults[<<1>>] = SortedVaultEntry(0, NoKey, NoKey),
                          !.sorted_head = <<1>>,
                          !.sorted_tail = <<1>>,
                          !.total_collateral = collateral,
                          !.total_debt = debt,
                          !.vault_count = 1]

\* the ICR the engine computes is below the MCR and the vault is not empty
Liquidatable(collateral, debt, price) ==
  /\ ~(collateral = 0 /\ debt = 0)
  /\ le_calculate_icr(calculate_collateral_value(collateral, price), debt) < MCR_BPS

\* LiquidationEngine::set_liquidation_penalty
SetLiquidationPenalty ==
  \E penalty_bps \in LiqPenalties :
    /\ LET res == set_liquidation_penalty(liquidation_engine, penalty_bps)
       IN /\ liquidation_engine' = res.st
          /\ last' = LastCall("liquidation_engine", "set_liquidation_penalty", <<res.err>>)
    /\ UNCHANGED <<now, router, branch_cspr, branch_scspr, oracle, stability_pool,
                   redemption_engine, stablecoin, ncalls>>

\* calculate_liquidation and execute_liquidation on a liquidatable vault; the key of
\* last holds the collateral, the debt, the price, then the collateral seized, the debt
\* liquidated, fully_liquidated and the outcome of the execution
LiquidateVault ==
  \E collateral \in LiqCollaterals, debt \in LiqDebts, price \in LiqPrices :
    /\ Liquidatable(collateral, debt, price)
    /\ LET result == calculate_liquidation(liquidation_engine, 1, collateral, debt, price)
           executed == execute_liquidation(BranchWithVault(collateral, debt),
                                           stability_pool, result)
       IN /\ branch_scspr' = executed.st.branch_scspr
          /\ last' = LastCall("liquidation_engine", "liquidate",
                              <<collateral, debt, price, result.collateral_seized,
                                result.debt_liquidated, result.fully_liquidated,
                                executed.err>>)
    /\ UNCHANGED <<now, router, branch_cspr, oracle, liquidation_engine, stability_pool,
                   redemption_engine, stablecoin, ncalls>>

NextLiq ==
  \/ SetLiquidationPenalty
  \/ LiquidateVault

SpecLiq == Init /\ [][NextLiq]_vars

\* the last call computed and applied a liquidation
Liquidated == last.contract = "liquidation_engine" /\ last.op = "liquidate"

\* the collateral that debt and penalty are worth at the price
WorthAtPrice(debt, penalty_bps, price) ==
  (((debt * (BPS_SCALE + penalty_bps)) \div BPS_SCALE) * SCALE) \div price

\* the debt the whole collateral covers at the price, the penalty taken off
CoveredBy(collateral, penalty_bps, price) ==
  ((collateral * price * BPS_SCALE) \div SCALE) \div (BPS_SCALE + penalty_bps)

\* C28: for every liquidatable vault, price and penalty from 0 to 5000 bps,
\* collateral_seized <= collateral and debt_liquidated <= debt, where collateral_seized
\* = min(debt * (10000 + penalty) / 10000 converted at the price, collateral),
\* debt_liquidated = debt when the cap does not bind and collateral * price * 10000 /
\* (10000 + penalty) when it does, fully_liquidated holds only when the cap does not
\* bind, and seize_collateral and reduce_debt fail neither with InsufficientCollateral
\* nor with RepayExceedsDebt
C28_LiquidationAmounts ==
  /\ liquidation_engine.liquidation_penalty_bps \in 0 .. 5000
  /\ Liquidated =>
       LET collateral == last.key[1]
           debt == last.key[2]
           worth == WorthAtPrice(debt, liquidation_engine.liquidation_penalty_bps, last.key[3])
           covered == CoveredBy(collateral, liquidation_engine.liquidation_penalty_bps,
                                last.key[3])
       IN /\ last.key[4] <= collateral
          /\ last.key[5] <= debt
          /\ last.key[4] = min(worth, collateral)
          /\ last.key[5] = IF worth <= collateral THEN debt ELSE covered
          /\ last.key[6] => worth <= collateral
          /\ last.key[7] \notin {"InsufficientCollateral", "RepayExceedsDebt"}

\* a vault of 105 collateral and 100 debt was liquidated at price 1.0 with the cap not
\* binding (penalty 0 or 5 per cent), or with the cap binding at the penalty of 50 per
\* cent: 105 seized for 70 of the debt
C28_Witness ==
  /\ Liquidated
  /\ last.key[1] = 105 /\ last.key[2] = 100 /\ last.key[3] = 1000
  /\ last.key[7] = "Ok"
  /\ \/ /\ liquidation_engine.liquidation_penalty_bps \in {0, 500}
        /\ last.key[6] /\ last.key[5] = 100 /\ last.key[4] \in {100, 105}
     \/ /\ liquidation_engine.liquidation_penalty_bps = 5000
        /\ ~last.key[6] /\ last.key[4] = 105 /\ last.key[5] = 70

-----------------------------------------------------------------------------
(* The vaults the engine liquidates.                                       *)

\* the ICR of the vault of owner o at the oracle's price of its collateral: the value
\* of the collateral in the units of the branch over the debt, in bps
OracleIcr(b, orc, o, t) ==
  scspr_calculate_icr(
    (scspr_get_collateral(b, o) * le_get_price(orc, "SCSPR", t)) \div COLLATERAL_DECIMALS,
    scspr_get_debt(b, o))

\* liquidate fails with NotLiquidatable without a change of state
RefusedUnchanged(o) ==
  LiquidateNow(o).err = "NotLiquidatable"
    => LiquidateNow(o).st
         = LiquidationCall(liquidation_engine, branch_scspr, stability_pool)

\* is_liquidatable holds exactly for the non-empty vaults that liquidate does not refuse
\* with NotLiquidatable
IsLiquidatableAgrees ==
  ~liquidation_engine.safe_mode.is_active =>
    \A o \in Owners :
      /\ RefusedUnchanged(o)
      /\ is_liquidatable(branch_scspr, oracle, o, now)
           <=> /\ ~is_empty(get_vault_data(branch_scspr, o))
               /\ LiquidateNow(o).err # "NotLiquidatable"

\* C29: with safe mode inactive, liquidate on a non-empty vault fails with
\* NotLiquidatable, changing no state, exactly when the vault's ICR at the current oracle
\* price is at least 11000 bps (a vault without debt is never liquidatable), and
\* is_liquidatable is true exactly for the non-empty vaults on which liquidate would not
\* fail with NotLiquidatable
C29_NotLiquidatableAtMcr ==
  /\ IsLiquidatableAgrees
  /\ ~liquidation_engine.safe_mode.is_active =>
       \A o \in Owners :
         ~is_empty(get_vault_data(branch_scspr, o))
           => (LiquidateNow(o).err = "NotLiquidatable"
                 <=> OracleIcr(branch_scspr, oracle, o, now) >= MCR_BPS)

-----------------------------------------------------------------------------
(* batch_liquidate and liquidate.                                          *)

\* liquidate on each of vault_owners[i ..] in order: a candidate that liquidate refuses
\* as empty or as healthy is passed over, any other failure fails the whole
RECURSIVE EachInOrder(_, _, _, _, _, _, _)
EachInOrder(le, b, orc, sp, vault_owners, i, t) ==
  IF i > Len(vault_owners) THEN Ok(LiquidationCall(le, b, sp))
  ELSE LET one == liquidate(le, b, orc, sp, vault_owners[i], t)
       IN IF one.err \in {"VaultNotFound", "NotLiquidatable"}
            THEN EachInOrder(le, b, orc, sp, vault_owners, i + 1, t)
          ELSE IF one.err # "Ok" THEN one
          ELSE EachInOrder(one.st.liquidation_engine, one.st.branch_scspr, orc,
                           one.st.stability_pool, vault_owners, i + 1, t)

\* the batch ended as the calls one by one did: with their outcome, and with their
\* state of the engine, the branch and the pool when they all returned, else with the
\* state here
SameAsEach(batch, each, here) ==
  /\ batch.err = each.err
  /\ batch.st = IF each.err = "Ok" THEN each.st ELSE here

\* the candidates the batch examines
FirstOf(vault_owners, max_vaults) ==
  SubSeq(vault_owners, 1, min(max_vaults, Len(vault_owners)))

\* C30: batch_liquidate(owners, max_vaults) examines at most the first max_vaults
\* candidates, does not fail on an empty or a healthy candidate and leaves it as it is,
\* and for the others produces the vault, branch-total and pool state of liquidate
\* called on each in order at the price fetched at the start; the statistics grow by
\* the number of vaults liquidated and by the totals of the batch
C30_BatchAsEachLiquidate ==
  ~liquidation_engine.safe_mode.is_active =>
    \A o1 \in Owners, o2 \in Owners, max_vaults \in 0 .. 3 :
      SameAsEach(batch_liquidate(liquidation_engine, branch_scspr, oracle, stability_pool,
                                 <<o1, o2>>, max_vaults, now),
                 EachInOrder(liquidation_engine, branch_scspr, oracle, stability_pool,
                             FirstOf(<<o1, o2>>, max_vaults), 1, now),
                 LiquidationCall(liquidation_engine, branch_scspr, stability_pool))

\* a batch has liquidated the vaults of two owners: both hold no collateral and the
\* statistics count two liquidations
C30_Witness ==
  /\ last.contract = "liquidation_engine" /\ last.op = "batch_liquidate"
  /\ liquidation_engine.total_liquidations = 2
  /\ liquidation_engine.total_collateral_seized > 0
  /\ \E o1 \in Owners, o2 \in Owners :
       /\ o1 # o2
       /\ branch_scspr.vaults[<<o1>>].some /\ branch_scspr.vaults[<<o1>>].collateral = 0
       /\ branch_scspr.vaults[<<o2>>].some /\ branch_scspr.vaults[<<o2>>].collateral = 0

-----------------------------------------------------------------------------
(* The gain window of a depositor.                                         *)

\* depositor o has no pending gain in the pool sp
NoPendingGain(sp, o) ==
  get_depositor_gains(sp, o) = [cspr_gain |-> 0, scspr_gain |-> 0]

\* a call by depositor o that returned left o without a pending gain
ClosedOut(res, o) == res.err = "Ok" => NoPendingGain(res.st, o)

\* deposit and withdraw close the gain window of the caller
DepositWithdrawCloseOut ==
  \A o \in Owners :
    /\ \A a \in PoolDeposits : ClosedOut(deposit(stability_pool, o, a), o)
    /\ \A a \in PoolDeposits \cup {get_compounded_deposit(stability_pool, o)} :
         ClosedOut(withdraw(stability_pool, o, a), o)

\* C31: immediately after a deposit, a withdraw or a claim_gains of a depositor that
\* returned, the depositor's pending gains in both collaterals are zero, also when the
\* compounded deposit has decayed to zero: a repeated claim_gains finds nothing to pay
C31_GainWindowClosed ==
  /\ DepositWithdrawCloseOut
  /\ \A o \in Owners : ClosedOut(claim_gains(stability_pool, o), o)

-----------------------------------------------------------------------------
(* Solvency of the pool.                                                   *)

\* the sum of the compounded deposits of all depositors
CompoundedTotal(sp) ==
  SumOver(Owners, [o \in Owners |-> get_compounded_deposit(sp, o)])

\* C32: in every reachable pool state the compounded deposits of all depositors sum to
\* at most total_deposits, so that each depositor can withdraw the whole compounded
\* deposit, across offsets, scale changes and full depletions
C32_CompoundedWithinTotal == CompoundedTotal(stability_pool) <= stability_pool.total_deposits

\* the sum of the pending gains of all depositors in collateral c
PendingGains(sp, c) == SumOver(Owners, [o \in Owners |-> GainOf(sp, o, c)])

\* the collateral c the pool has received through offsets
ReceivedCollateral(sp, c) ==
  IF c = "Cspr" THEN sp.total_cspr_collateral ELSE sp.total_scspr_collateral

\* C33: in every reachable pool state and for each collateral, the pending gains of all
\* depositors sum to at most the collateral the pool has received through offsets (none
\* of which leaves the pool in a payout), also after P has been rescaled
C33_GainsWithinCollateral ==
  \A c \in CollateralIds :
    PendingGains(stability_pool, c) <= ReceivedCollateral(stability_pool, c)

-----------------------------------------------------------------------------
(* The product P is positive.                                              *)

\* every snapshot that holds a deposit was taken at a non-zero P
SnapshotsPositive(sp) ==
  \A o \in Owners : sp.deposits[o].deposit > 0 => sp.deposits[o].p > 0

\* C34: the stored product P is strictly positive in every reachable pool state: no
\* offset that leaves a remainder in the pool rounds P down to zero, and every snapshot
\* store_snapshot takes has a non-zero P
C34_ProductPositive ==
  /\ stability_pool.ps_state.p > 0
  /\ SnapshotsPositive(stability_pool)

-----------------------------------------------------------------------------
(* Gains already accrued.                                                  *)

\* the step is a call of depositor o
OwnCall(o) == last'.contract = "stability_pool" /\ last'.key = <<o>>

\* a step that is not a call of depositor o lowers no pending gain of o
GainsKept ==
  \A o \in Owners, c \in CollateralIds :
    ~OwnCall(o) => GainOf(stability_pool', o, c) >= GainOf(stability_pool, o, c)

\* C35: between two of a depositor's own operations the depositor's pending gain in each
\* collateral never decreases: no offset, also one that depletes the pool and starts an
\* epoch or one that crosses a scale boundary, and no deposit, withdraw or claim of
\* another depositor lowers a gain already accrued
C35_GainsNeverDecrease == [][GainsKept]_vars

-----------------------------------------------------------------------------
(* The enumeration index of an owner.                                      *)

\* the ids of the non-empty vaults of the owner
OpenIds(b, owner) == {id \in 1 .. MaxVaultId : ~NotOpen(b.vaults[<<owner, id>>])}

\* the ids user_vault_ids lists at the positions below user_vault_count
ListedIds(b, owner) ==
  {b.user_vault_ids[owner][i] : i \in 0 .. b.user_vault_count[owner] - 1}

\* the listed ids are the ids of the owner's non-empty vaults, each listed once and
\* mapped to its position by vault_indices, and has_vault tells whether there is one
OwnerIndexConsistent(b, owner) ==
  /\ b.user_vault_count[owner] <= MaxVaultId
  /\ ListedIds(b, owner) = OpenIds(b, owner)
  /\ Cardinality(ListedIds(b, owner)) = b.user_vault_count[owner]
  /\ \A i \in 0 .. b.user_vault_count[owner] - 1 :
       b.vault_indices[<<owner, b.user_vault_ids[owner][i]>>] = i
  /\ has_vault(b, owner) <=> OpenIds(b, owner) # {}

\* C36: for every owner, in every reachable state, user_vault_ids at the positions
\* 0 .. user_vault_count - 1 lists exactly the owner's non-empty vault ids without
\* duplicates, vault_indices maps each of them to its position, and has_vault(owner) is
\* true exactly when the owner has a non-empty vault
C36_OwnerIndexConsistent == \A o \in Owners : OwnerIndexConsistent(branch_cspr, o)


-----------------------------------------------------------------------------
(* The debt a liquidation removes and the debt the pool absorbs.            *)

\* what a liquidate of owner o's vault that returns leaves: the vault's debt falls
\* by exactly what total_deposits falls by, and collateral reaches the pool only
\* with the product and the sum updated for it
DebtRemovedIsAbsorbed(o) ==
  LET res == LiquidateNow(o)
      sp == res.st.stability_pool
      removed == branch_scspr.vaults[<<o>>].debt - res.st.branch_scspr.vaults[<<o>>].debt
      absorbed == stability_pool.total_deposits - sp.total_deposits
      credited == sp.total_scspr_collateral - stability_pool.total_scspr_collateral
  IN res.err = "Ok" =>
       /\ removed = absorbed
       /\ credited > 0 =>
            sp.ps_state = update_product_sum(stability_pool, "SCSPR", absorbed, credited,
                                             stability_pool.total_deposits).ps_state

\* C37: every liquidation that succeeds removes from the vault exactly the debt by
\* which the pool's total_deposits decreases, also when the pool holds less than
\* the debt to cover or nothing, and credits collateral to the pool only together
\* with the matching update of S
C37_DebtRemovedIsAbsorbed == \A o \in Owners : DebtRemovedIsAbsorbed(o)


-----------------------------------------------------------------------------
(* The value a redemption moves.                                            *)

\* the collateral a redemption took from the vault of key k
CollateralTaken(b, after, k) == b.vaults[k].collateral - after.vaults[k].collateral

\* what a redeem that returned has moved: the gUSD taken from the redeemer is the
\* debt removed from the vaults, and the collateral paid to the redeemer and as fee
\* to the treasury is the collateral removed from the vaults
ValueConserved(o, res) ==
  LET after == res.st.branch_scspr
      re == res.st.redemption_engine
      taken == stablecoin.balances[o] - res.st.stablecoin.balances[o]
      paid == (re.total_collateral_distributed
                 - redemption_engine.total_collateral_distributed)
              + (re.total_fees_collected - redemption_engine.total_fees_collected)
  IN /\ taken = SumOver(ScsprKeys, [k \in ScsprKeys |-> DebtTaken(branch_scspr, after, k)])
     /\ paid = SumOver(ScsprKeys,
                       [k \in ScsprKeys |-> CollateralTaken(branch_scspr, after, k)])

\* C38: every redeem that succeeds conserves value: the stable asset taken from the
\* redeemer equals the debt removed from vaults and the collateral paid out, to the
\* redeemer and as fee, equals the collateral removed from vaults, also when the
\* vaults within the iteration cap hold less debt than the amount requested
C38_RedeemConservesValue ==
  \A o \in Owners, a \in RedemptionAmounts, n \in IterationCaps, p \in Prices :
    LET res == RedeemNow(o, a, n, p)
    IN res.err = "Ok" => ValueConserved(o, res)


-----------------------------------------------------------------------------
(* The ICR of the ledger and the ICR of the engine.                         *)

\* the ICR BranchCspr computes for a vault at its price
LedgerIcr(b, vault) == calculate_icr(get_collateral_value(b, vault.collateral), vault.debt)

\* the ICR the LiquidationEngine computes for the same vault at the price p
EngineIcr(vault, p) ==
  le_calculate_icr(calculate_collateral_value(vault.collateral, p), vault.debt)

\* the last call opened or adjusted the vault of key k: it passed check_mcr
PassedMcr(k) ==
  /\ last.contract = "branch_cspr" /\ last.op \in {"open_vault", "adjust_vault"}
  /\ last.key = k
  /\ branch_cspr.vaults[k].debt > 0

\* the two agree on the vault of key k at the ledger's price
IcrAgrees(b, k) ==
  LET vault == b.vaults[k]
      engine == EngineIcr(vault, b.last_good_price)
  IN ~is_empty(vault) =>
       /\ engine = LedgerIcr(b, vault)
       /\ PassedMcr(k) => ~(engine < MCR_BPS)
       /\ engine < MCR_BPS => LedgerIcr(b, vault) < MCR_BPS

\* C39: the vault ledger and the liquidation engine compute the same ICR for the same
\* vault and price: a vault that just passed the ledger's MCR check at a price is not
\* liquidatable at that price with no time elapsed, and a vault the engine deems
\* liquidatable has a ledger ICR below 11000 bps
C39_SameIcr == \A k \in CsprKeys : IcrAgrees(branch_cspr, k)


-----------------------------------------------------------------------------
(* Interest over several accruals.                                          *)

\* BranchCspr after owner 1 opened vault 1 with 5 collateral at t0
OpenedAt(debt, rate, t0) == open_vault(BranchCsprInit, 1, 5, debt, rate, t0)

\* adjust_vault of that vault with zero deltas at t: the accrual alone
AccrueAt(b, t) == adjust_vault(b, 1, 1, 0, FALSE, 0, FALSE, t)

\* the debts of the vault after an accrual at t2, and after one at t1 and one at t2,
\* differ by no more than the rounding of one division
OnceAsTwice(b, t1, t2) ==
  LET once == AccrueAt(b, t2)
      twice == AccrueAt(AccrueAt(b, t1).st, t2)
      diff == twice.st.vaults[<<1, 1>>].debt - once.st.vaults[<<1, 1>>].debt
  IN (once.err = "Ok" /\ AccrueAt(b, t1).err = "Ok" /\ twice.err = "Ok")
       => diff \in {-1, 0, 1}

\* C40: interest is simple, not compounding: the debt at t2 does not depend on how
\* many accruing operations ran since t0; accruing at t1 and again at t2 gives the
\* debt of accruing once at t2, up to integer rounding
C40_SimpleInterest ==
  \A debt \in AccrueDebts, rate \in AccrueRates, t0 \in AccrueTimes, t1 \in AccrueTimes :
    (t0 <= t1 /\ t1 <= now /\ OpenedAt(debt, rate, t0).err = "Ok")
      => OnceAsTwice(OpenedAt(debt, rate, t0).st, t1, now)

====
